---------------------------- MODULE Spec2Model ----------------------------
(***************************************************************************)
(* Delivery state machine of the longhouse engine (apps/engine): per-file  *)
(* acked/queued cursors (state/file_state.rs), the pointer spool           *)
(* (state/spool.rs), prepare_file / ship_and_record / run_startup_recovery *)
(* / replay_spool_batch (shipper.rs), the bulk cmd_ship path (main.rs) and *)
(* the daemon start-up (daemon.rs), run against session files that a       *)
(* writer appends to, truncates and deletes.                               *)
(*                                                                         *)
(* Files.  A session file is a sequence of event-bearing lines.  Every     *)
(* line is LineLen bytes long when complete, the newline being its last    *)
(* byte; only the last line can be incomplete (len < LineLen): the writer  *)
(* has not yet written the end of the JSON text and the newline, which it  *)
(* writes together.  `done` records that the event of the line was         *)
(* contained in a payload the server answered with 2xx, or with the 4xx    *)
(* that makes ship_and_record skip the range.  A proper suffix of a JSON   *)
(* object line is never a valid JSON document, so a parse that starts in   *)
(* the middle of a line gets no event from it; a proper prefix is not one  *)
(* either, so neither parse path gets an event from the unterminated tail. *)
(*                                                                         *)
(* Time.  Timestamps are abstracted to the comparisons the code makes:     *)
(* due (next_retry_at <= now), old (created_at < now - 7 days), stale      *)
(* (last_updated < now - 30 days).  The statements of one handler that     *)
(* follow its await run in one step; the process can also die between      *)
(* them (CrashAfterEnqueue).                                               *)
(*                                                                         *)
(* Specifications.  Spec is the delivery state machine of the daemon with  *)
(* the event loop left out, the session writer and the backoff clock;      *)
(* AgeingSpec is the same daemon over months, where the prune and cleanup  *)
(* windows close; CmdShipSpec is the `ship` command.  LoopSpec is the      *)
(* daemon inside the event loop of daemon::run: the select! branches, the  *)
(* OfflineState and a server that comes and goes, over two files; LoopFair *)
(* adds the health timer.  ParseSpec applies parse_session_file to files   *)
(* given as bytes, ExtractSpec applies extract_events to one source line.  *)
(* WatchSpec is the notify callback and one next_batch call of             *)
(* SessionWatcher over the bounded channel; TrackerSpec is one caller of   *)
(* ErrorTracker, RaceSpec several callers whose atomic operations          *)
(* interleave; OutboxSpec is one drain_outbox call over a directory of     *)
(* files; RetrySpec follows one spool row through its failed attempts.     *)
(* DequeueSpec applies dequeue_batch to spool tables as time passes;       *)
(* ShipSpec is one ShipperClient::ship call against a server answering     *)
(* any status; PathsSpec applies both parser paths to the same bytes;      *)
(* SelectSpec is WatchSpec with the other select! branches that end a      *)
(* next_batch call; ScanSpec repeats full_scan over files nobody writes    *)
(* to, the server answering 2xx; OfflineSpec calls the methods of          *)
(* OfflineState in any order as the clock advances.                        *)
(* Each specification leaves the variables of the others at their initial  *)
(* values.                                                                 *)
(***************************************************************************)
EXTENDS Integers, Sequences, FiniteSets, TLC

\* ------------------------------------------------------------------ bounds
MaxLines == 2      \* lines a file holds at most
LineLen == 2       \* bytes of a complete line, newline included
MaxRows == 2       \* spool rows ever inserted
RetryCap == 1      \* transient replay failures of one spool row
SpoolRoom == 1     \* free spool rows when the run starts near capacity

\* ------------------------------------------------------- program constants
MAX_QUEUE_SIZE == 10000
DEFAULT_MAX_RETRIES == 50
REPLAY_LIMIT == 50            \* replay_spool_batch(.., 50) in the event loop
STARTUP_REPLAY_LIMIT == 100   \* replay_spool_batch(.., 100) at start-up
BULK_REPLAY_LIMIT == 100      \* dequeue_batch(100) in cmd_ship

Paths == {"a.jsonl"}
Transient == {"RateLimited", "ServerError", "ConnectError"}
ShipResult == {"Ok", "ClientError"} \cup Transient

VARIABLES
    lines,      \* [Paths -> Seq([len, done])]  file content
    exists,     \* [Paths -> BOOLEAN]         the path is on disk
    rewritten,  \* [Paths -> BOOLEAN]         the file was truncated or deleted
    fs,         \* file_state table: [Paths -> row]
    spool,      \* spool_queue rows of the modelled files
    filler,     \* number of further spool_queue rows (dead rows of other files)
    fillerOld,  \* those rows are older than 7 days
    nextRow,    \* next AUTOINCREMENT id
    proc,       \* "down" | "daemon" | "bulk"
    pc,         \* position of the running process
    item,       \* the ShipItem in flight
    result,     \* the ShipResult of the POST in flight
    batch,      \* replay: entries dequeued and not yet processed
    scanned,    \* cmd_ship: files already handled by this run
    phase,      \* "crashed": the process died inside ship_and_record;
                \* "recovering": since the restart after that crash only
                \* replay answered 2xx has run; "normal" otherwise
    last,       \* the operation that has just completed
    \* ---- the event loop of daemon::run (specification LoopSpec)
    offline,    \* OfflineState: [is_offline, offline_since, consecutive_failures]
    reachable,  \* the server accepts connections
    branch,     \* the select! branch that is running, "select" between branches
    remaining,  \* paths the running ship_batch / full_scan has still to handle
    had_connect_error,  \* ship_batch's local; in full_scan and in replay the
                \* flag the callee had in hand and the code drops (history only)
    await_probe,\* history: a ship attempt ended in ConnectError and no health
                \* probe has succeeded since
    wire,       \* the request the step just taken sent: "none" | "ingest" |
                \* "health" | "heartbeat"
    status_file,\* what the last write_status_file stored: "none" | "online" |
                \* "offline"
    \* ---- the parser as a function of the file (specification ParseSpec)
    file_pad,   \* length of the blank first line of the file, 0 if it has none
    file_body,  \* the bytes of the file after that line
    whole,      \* ParseResult of the file
    upto,       \* ParseResult of the file cut just past its last newline
    \* ---- extract_events as a function of the line (specification ExtractSpec)
    raw_obj,    \* the RawLine a source line deserialises to
    extracted,  \* the events extract_events pushed for it
    \* ---- the watcher channel and next_batch (specification WatchSpec)
    chan_old,   \* paths at the front of the channel that an earlier burst left
    chan,       \* the paths queued behind them, oldest first
    dropped_events, \* the AtomicU64 the callback counts dropped paths in
    wpc,        \* next_batch: "idle" | "first" | "collecting" | "returned" |
                \* "closed"
    collected,  \* next_batch's HashSet
    waited,     \* time since next_batch received its first event
    deadline,   \* the value of `waited` at which sleep_until(deadline) is ready
    handed,     \* the Vec next_batch returned
    \* ---- ConsecutiveErrorTracker (specifications TrackerSpec, RaceSpec)
    consecutive,        \* AtomicU32
    total_since_reset,  \* AtomicU32
    first_error_at,     \* Mutex<Option<Instant>>: "None" | "Some"
    callers,    \* the threads that share the tracker
    call,       \* [callers -> the call the thread is in: op, position, the
                \* value its first atomic returned, its return value]
    run_len,    \* history: record_error calls begun since the last
                \* record_success began
    made,       \* history: record_error calls begun
    reported,   \* history: sum of the n of every Some(n) returned
    error_cap,  \* record_error calls the run makes at most
    \* ---- drain_outbox (specification OutboxSpec)
    outbox,     \* the outbox directory: [names -> file]
    listed,     \* history: the directory as read_dir found it
    entries,    \* names read_dir yielded and the loop has not reached
    by_session, \* the HashMap session_id -> name of the file kept
    dpc,        \* drain_outbox: "idle" | "scan" | "post"
    posts,      \* the presence POSTs of this call: [name, sid, answer]
    \* ---- one spool row under retry (specification RetrySpec)
    entry,      \* [retry_count, status, delay, max]
    attempts,   \* ship attempts replay has made for the row
    \* ---- Spool::dequeue_batch as a function of the table (DequeueSpec)
    dq_table,   \* the spool_queue rows
    dq_limit,   \* the limit of the last call
    dq_batch,   \* the Vec<SpoolEntry> the last call returned
    \* ---- ShipperClient::ship (specification ShipSpec)
    max_retries_429,    \* the client's field, from the configuration
    ship_pc,    \* "idle" | "sending" | "sleeping" | "returned" | "panicked"
    retries,    \* ship's local
    backoff,    \* ship's local, in milliseconds
    requests,   \* history: requests the call has sent
    response,   \* the last answer: [status, retry_after], status 0 for none
    slept,      \* the `wait` of the last sleep, in milliseconds
    ship_result,\* the ShipResult returned
    \* ---- the two parse paths on one file (specification PathsSpec)
    parse_offset,   \* the offset both are called with
    by_mmap,    \* ParseResult of parse_mmap
    by_buffered,\* ParseResult of parse_buffered
    \* ---- full_scan over files nobody writes to (specification ScanSpec)
    scan_lines, \* [path -> the lines of the file, each by what it holds]
    scan_acked, \* [path -> acked_offset]
    scan_pc,    \* "idle" | "scanning"
    scan_todo,  \* the files full_scan has still to handle
    scans,      \* full_scan calls completed
    parsed_in_scan, \* history: the files the running scan has parsed
    \* ---- OfflineState with its Instants (specification OfflineSpec)
    ostate,     \* OfflineState; offline_since is <<>> (None) or <<t>> (Some)
    instant,    \* Instant::now(), the monotonic clock
    ocall       \* the method called last and what it returned

deliveryVars == <<lines, exists, rewritten, fs, spool, filler, fillerOld,
                  nextRow, proc, pc, item, result, batch, scanned, phase, last>>

loopVars == <<offline, reachable, branch, remaining, had_connect_error, await_probe,
              wire, status_file>>

parserVars == <<file_pad, file_body, whole, upto, raw_obj, extracted>>

watcherVars == <<chan_old, chan, dropped_events, wpc, collected, waited, deadline,
                 handed>>

trackerVars == <<consecutive, total_since_reset, first_error_at, callers, call,
                 run_len, made, reported, error_cap>>

outboxVars == <<outbox, listed, entries, by_session, dpc, posts>>

retryVars == <<entry, attempts>>

dequeueVars == <<dq_table, dq_limit, dq_batch>>

shipVars == <<max_retries_429, ship_pc, retries, backoff, requests, response, slept,
              ship_result>>

pathsVars == <<parse_offset, by_mmap, by_buffered>>

scanVars == <<scan_lines, scan_acked, scan_pc, scan_todo, scans, parsed_in_scan>>

stateVars == <<ostate, instant, ocall>>

unitVars == <<dequeueVars, shipVars, pathsVars, scanVars, stateVars>>

componentVars == <<watcherVars, trackerVars, outboxVars, retryVars, unitVars>>

vars == <<deliveryVars, loopVars, parserVars, componentVars>>

fileVars == <<lines, exists, rewritten>>
storeVars == <<fs, spool, filler, fillerOld, nextRow>>
flightVars == <<item, result, batch>>

Max(a, b) == IF a >= b THEN a ELSE b
Min(a, b) == IF a <= b THEN a ELSE b

\* --------------------------------------------------------------- the files
RECURSIVE SumLen(_)
SumLen(s) == IF s = <<>> THEN 0 ELSE Head(s).len + SumLen(Tail(s))

\* std::fs::metadata(path).len()
FileSize(p) == SumLen(lines[p])

\* byte offset of the first byte of line i
LineStart(p, i) == SumLen(SubSeq(lines[p], 1, i - 1))

Complete(l) == l.len = LineLen

LastIncomplete(p) == lines[p] /= <<>> /\ ~Complete(lines[p][Len(lines[p])])

\* parse_session_file (parse_mmap and parse_buffered alike on these files): the
\* lines whose events it returns when it starts at byte `offset`, which are the
\* newline-terminated lines that begin at or after `offset`.
ParseSessionFile(p, offset) ==
    IF FileSize(p) <= offset THEN {}
    ELSE {i \in 1..Len(lines[p]) :
            LineStart(p, i) >= offset /\ Complete(lines[p][i])}

\* The server answered a payload made of the events of lines `idx` of file p.
Answered(p, idx) ==
    [lines EXCEPT ![p] = [i \in 1..Len(lines[p]) |->
        IF i \in idx THEN [lines[p][i] EXCEPT !.done = TRUE] ELSE lines[p][i]]]

\* metadata.session_id: the file stem
SessionId(p) == p
ProviderOf(p) == "claude"

\* ---------------------------------------------------- file_state (cursors)
NoRow == [tracked |-> FALSE, provider |-> "none", queued_offset |-> 0,
          acked_offset |-> 0, session_id |-> "none", stale |-> FALSE]

\* FileState::get_offset: acked_offset, 0 if the path has no row
get_offset(f, p) == IF f[p].tracked THEN f[p].acked_offset ELSE 0

\* FileState::get_queued_offset
get_queued_offset(f, p) == IF f[p].tracked THEN f[p].queued_offset ELSE 0

set_offset_NoMax(f, p, offset, sid, provider) ==
    [f EXCEPT ![p] =
        IF f[p].tracked
        THEN [f[p] EXCEPT !.queued_offset = offset, !.acked_offset = offset,
                          !.session_id = sid, !.stale = FALSE]
        ELSE [tracked |-> TRUE, provider |-> provider, queued_offset |-> offset,
              acked_offset |-> offset, session_id |-> sid, stale |-> FALSE]]

\* FileState::set_offset: INSERT .. ON CONFLICT DO UPDATE with MAX on both cursors
set_offset(f, p, offset, sid, provider) ==
    [f EXCEPT ![p] =
        IF f[p].tracked
        THEN [f[p] EXCEPT !.queued_offset = Max(f[p].queued_offset, offset),
                          !.acked_offset = Max(f[p].acked_offset, offset),
                          !.session_id = sid, !.stale = FALSE]
        ELSE [tracked |-> TRUE, provider |-> provider,
              queued_offset |-> Max(offset, 0), acked_offset |-> Max(offset, 0),
              session_id |-> sid, stale |-> FALSE]]

set_queued_offset_NoMax(f, p, offset, provider, sid) ==
    [f EXCEPT ![p] =
        IF f[p].tracked
        THEN [f[p] EXCEPT !.queued_offset = offset,
                          !.session_id = sid, !.stale = FALSE]
        ELSE [tracked |-> TRUE, provider |-> provider, queued_offset |-> offset,
              acked_offset |-> 0, session_id |-> sid, stale |-> FALSE]]

\* FileState::set_queued_offset: advances queued_offset only
set_queued_offset(f, p, offset, provider, sid) ==
    [f EXCEPT ![p] =
        IF f[p].tracked
        THEN [f[p] EXCEPT !.queued_offset = Max(f[p].queued_offset, offset),
                          !.session_id = sid, !.stale = FALSE]
        ELSE [tracked |-> TRUE, provider |-> provider,
              queued_offset |-> Max(offset, 0), acked_offset |-> 0,
              session_id |-> sid, stale |-> FALSE]]

set_acked_offset_NoMax(f, p, offset) ==
    [f EXCEPT ![p] =
        IF f[p].tracked
        THEN [f[p] EXCEPT !.acked_offset = offset, !.stale = FALSE]
        ELSE f[p]]

\* FileState::set_acked_offset: an UPDATE, so a path without a row stays without
set_acked_offset(f, p, offset) ==
    [f EXCEPT ![p] =
        IF f[p].tracked
        THEN [f[p] EXCEPT !.acked_offset = Max(f[p].acked_offset, offset),
                          !.stale = FALSE]
        ELSE f[p]]

\* FileState::reset_offsets: an UPDATE to zero
reset_offsets(f, p) ==
    [f EXCEPT ![p] =
        IF f[p].tracked
        THEN [f[p] EXCEPT !.queued_offset = 0, !.acked_offset = 0, !.stale = FALSE]
        ELSE f[p]]

get_unacked_files_Tracked(f) == {p \in DOMAIN f : f[p].tracked}

\* FileState::get_unacked_files
get_unacked_files(f) ==
    {p \in DOMAIN f : f[p].tracked /\ f[p].queued_offset > f[p].acked_offset}

\* FileState::prune_stale: rows not updated within the window whose path is
\* gone from disk are deleted
prune_stale(f) ==
    [p \in DOMAIN f |-> IF f[p].tracked /\ f[p].stale /\ ~exists[p] THEN NoRow ELSE f[p]]

\* ------------------------------------------------------------ spool_queue
\* Spool::total_size: SELECT COUNT(*) FROM spool_queue
total_size(rows, fill) == Cardinality(rows) + fill

\* Spool::pending_count
pending_count(rows) == Cardinality({r \in rows : r.status = "pending"})

NewRow(id, provider, p, start, end, sid) ==
    [id |-> id, provider |-> provider, file_path |-> p, start_offset |-> start,
     end_offset |-> end, session_id |-> sid, retry_count |-> 0,
     status |-> "pending", due |-> TRUE, old |-> FALSE]

CanEnqueue_NoLimit(rows, fill) == TRUE

\* Spool::enqueue, its capacity test: false means rejected
CanEnqueue(rows, fill) == ~(total_size(rows, fill) >= MAX_QUEUE_SIZE)

\* Spool::enqueue, the table after the call
enqueue(rows, fill, id, provider, p, start, end, sid) ==
    IF CanEnqueue(rows, fill)
    THEN rows \cup {NewRow(id, provider, p, start, end, sid)}
    ELSE rows

RECURSIVE ByCreatedAt(_)
\* ORDER BY created_at ASC: insertion order, which is the order of the ids
ByCreatedAt(rows) ==
    IF rows = {} THEN <<>>
    ELSE LET m == CHOOSE r \in rows : \A q \in rows : r.id <= q.id
         IN <<m>> \o ByCreatedAt(rows \ {m})

dequeue_batch_NoRetryAt(rows, limit) ==
    LET ready == ByCreatedAt({r \in rows : r.status = "pending"})
    IN SubSeq(ready, 1, Min(limit, Len(ready)))

\* Spool::dequeue_batch
dequeue_batch(rows, limit) ==
    LET ready == ByCreatedAt({r \in rows : r.status = "pending" /\ r.due})
    IN SubSeq(ready, 1, Min(limit, Len(ready)))

\* Spool::mark_shipped
mark_shipped(rows, id) == {r \in rows : r.id /= id}

mark_failed_with_max_Default(rows, id, max_retries) ==
    {IF r.id /= id THEN r
     ELSE IF r.retry_count + 1 >= DEFAULT_MAX_RETRIES
          THEN [r EXCEPT !.status = "dead", !.retry_count = r.retry_count + 1]
          ELSE [r EXCEPT !.retry_count = r.retry_count + 1, !.due = FALSE]
     : r \in rows}

\* Spool::mark_failed_with_max
mark_failed_with_max(rows, id, max_retries) ==
    {IF r.id /= id THEN r
     ELSE IF r.retry_count + 1 >= max_retries
          THEN [r EXCEPT !.status = "dead", !.retry_count = r.retry_count + 1]
          ELSE [r EXCEPT !.retry_count = r.retry_count + 1, !.due = FALSE]
     : r \in rows}

\* Spool::mark_failed
mark_failed(rows, id) == mark_failed_with_max(rows, id, DEFAULT_MAX_RETRIES)

cleanup_DeadOnly(rows) == {r \in rows : ~(r.old /\ r.status = "dead")}

\* Spool::cleanup: rows created more than 7 days ago go, whatever their status
cleanup(rows) == {r \in rows : ~r.old}
cleanup_filler(fill, fillOld) == IF fillOld THEN 0 ELSE fill

\* ------------------------------------------------------- in-flight records
NoItem == [path |-> "none", provider |-> "none", offset |-> 0, new_offset |-> 0,
           event_count |-> 0, session_id |-> "none", events |-> {}]

\* What the operation that has just completed was and returned; `acked` and
\* `fresh` are get_offset(path) and "path has no row" as the operation found them.
NoOp == [op |-> "none", path |-> "none", result |-> "none", enqueued |-> FALSE,
         events |-> 0, reset |-> FALSE, fresh |-> FALSE, acked |-> 0,
         is_connect_error |-> FALSE]

\* ------------------------------------------- the parser (pipeline/parser.rs)
\* Session files as bytes.  A file is `pad` bytes of one blank line (spaces and
\* its newline; pad = 0: no such line) followed by the bytes of `body`.  A JSON
\* record is the text {} ; every record yields one event, which is identified
\* by its source_offset.
MaxBytes == 4      \* bytes of a file body at most
MMAP_THRESHOLD == 1048576

Bytes == {"{", "}", " ", "\n"}

\* u8::is_ascii_whitespace / str::trim on these bytes
IsWhitespace(b) == b \in {" ", "\n"}

RECURSIVE TrimStart(_)
TrimStart(s) ==
    IF s /= <<>> /\ IsWhitespace(Head(s)) THEN TrimStart(Tail(s)) ELSE s

RECURSIVE TrimEnd(_)
TrimEnd(s) ==
    IF s /= <<>> /\ IsWhitespace(s[Len(s)]) THEN TrimEnd(SubSeq(s, 1, Len(s) - 1))
    ELSE s

\* trim_bytes (parse_mmap) and str::trim (parse_buffered)
trim_bytes(s) == TrimEnd(TrimStart(s))

\* serde_json::from_slice::<RawLine> succeeds
IsRecord(s) == s = <<"{", "}">>

\* data[pos..].iter().position(|&b| b == b'\n'): 0 stands for None, else the
\* 1-based index in s of the first newline after the first `pos` bytes
NewlineFrom(s, pos) ==
    IF \E i \in (pos + 1)..Len(s) : s[i] = "\n"
    THEN CHOOSE i \in (pos + 1)..Len(s) :
            s[i] = "\n" /\ \A j \in (pos + 1)..(i - 1) : s[j] /= "\n"
    ELSE 0

NoResult == [done |-> FALSE, events |-> <<>>, last_good_offset |-> 0]

ParseResult(events, last_good_offset) ==
    [done |-> TRUE, events |-> events, last_good_offset |-> last_good_offset]

\* std::fs::metadata(path).len()
FileLen(f) == f.pad + Len(f.body)

RECURSIVE MmapLoop(_, _, _, _, _)
\* parse_mmap, its `while pos < data.len()` loop over the body; `base` is the
\* file offset of the first byte of the body
MmapLoop(data, pos, base, events, last_good_offset) ==
    IF ~(pos < Len(data)) THEN ParseResult(events, last_good_offset)
    ELSE LET nl == NewlineFrom(data, pos)
         IN IF nl = 0
            THEN ParseResult(events, last_good_offset)   \* partial line: break
            ELSE LET line_offset == base + pos
                     after_line == base + nl
                     trimmed == trim_bytes(SubSeq(data, pos + 1, nl - 1))
                 IN IF trimmed = <<>> \/ ~IsRecord(trimmed)
                    THEN MmapLoop(data, nl, base, events, after_line)
                    ELSE MmapLoop(data, nl, base,
                                  Append(events, [source_offset |-> line_offset]),
                                  after_line)

\* parse_mmap called with offset 0: the blank first line, when there is one, is
\* a complete line without a record and moves last_good_offset past it
parse_mmap(f) == MmapLoop(f.body, 0, f.pad, <<>>, f.pad)

RECURSIVE Lines(_)
\* BufRead::lines: the runs between newlines, the newline stripped; a last run
\* without a newline is a line too
Lines(s) ==
    IF s = <<>> THEN <<>>
    ELSE LET nl == NewlineFrom(s, 0)
         IN IF nl = 0 THEN <<s>>
            ELSE <<SubSeq(s, 1, nl - 1)>> \o Lines(SubSeq(s, nl + 1, Len(s)))

RECURSIVE BufferedLoop(_, _, _)
\* parse_buffered, its `for line_result in reader.lines()` loop
BufferedLoop(ls, current_offset, events) ==
    IF ls = <<>> THEN ParseResult(events, current_offset)
    ELSE LET line == Head(ls)
             line_offset == current_offset
             next_offset == current_offset + Len(line) + 1
             trimmed == trim_bytes(line)
         IN IF trimmed = <<>> \/ ~IsRecord(trimmed)
            THEN BufferedLoop(Tail(ls), next_offset, events)
            ELSE BufferedLoop(Tail(ls), next_offset,
                              Append(events, [source_offset |-> line_offset]))

\* parse_buffered called with offset 0; the blank first line adds its length,
\* newline included, to current_offset
parse_buffered(f) == BufferedLoop(Lines(f.body), f.pad, <<>>)

\* parse_session_file(path, 0)
parse_session_file(f) ==
    IF FileLen(f) = 0 THEN ParseResult(<<>>, 0)
    ELSE IF FileLen(f) > MMAP_THRESHOLD THEN parse_mmap(f)
    ELSE parse_buffered(f)

\* the offset just past the last newline of the file, 0 if it has none
PastLastNewline(f) ==
    IF \E i \in 1..Len(f.body) : f.body[i] = "\n"
    THEN f.pad + CHOOSE i \in 1..Len(f.body) :
                    f.body[i] = "\n" /\ \A j \in (i + 1)..Len(f.body) : f.body[j] /= "\n"
    ELSE f.pad

\* the first k bytes of the file (k at or after the end of the blank first line)
Prefix(f, k) == [pad |-> f.pad, body |-> SubSeq(f.body, 1, k - f.pad)]

TheFile == [pad |-> file_pad, body |-> file_body]

\* ---------------------------------------- event extraction from one line
\* A source line after serde_json::from_str::<RawLine>.  Strings are kept as
\* what the code asks of them: "None" (field absent), "blank" (empty after
\* trim) or "some".  The `result` of a tool_result item is what
\* extract_text_from_raw_content makes of its content: "None", "empty" or
\* "some".  raw_line of an event is "Some" or "None".
MaxItems == 3      \* content items of a message at most

ContentItem ==
    [type : {"text"}, text : {"None", "blank", "some"}, result : {"None"}]
    \cup [type : {"tool_use", "thinking"}, text : {"None"}, result : {"None"}]
    \cup [type : {"tool_result"}, text : {"None"}, result : {"None", "empty", "some"}]

\* message.content: absent, a JSON string, an array of items, or other JSON
Content ==
    [form : {"none", "other"}, text : {"None"}, items : {<<>>}]
    \cup [form : {"string"}, text : {"blank", "some"}, items : {<<>>}]
    \cup [form : {"items"}, text : {"None"},
          items : UNION {[1..n -> ContentItem] : n \in 0..MaxItems}]

RawLine == [type : {"user", "assistant", "summary", "system"}, message : Content]

ParsedEvent(role, raw_type, idx, raw_line) ==
    [role |-> role, raw_type |-> raw_type, idx |-> idx, raw_line |-> raw_line]

RawLineOf_Every(first) == "Some"

\* raw_line: if first { first = false; Some(raw_line.to_string()) } else { None }
RawLineOf(first) == IF first THEN "Some" ELSE "None"

RECURSIVE AssistantLoop(_, _, _, _)
\* extract_assistant_events, its loop over items.iter().enumerate()
AssistantLoop(items, idx, first, events) ==
    IF idx > Len(items) THEN events
    ELSE LET it == items[idx]
         IN IF it.type = "text" /\ it.text = "some"
            THEN AssistantLoop(items, idx + 1, FALSE,
                     Append(events, ParsedEvent("assistant", "assistant", idx,
                                                RawLineOf(first))))
            ELSE IF it.type = "tool_use"
            THEN AssistantLoop(items, idx + 1, FALSE,
                     Append(events, ParsedEvent("assistant", "assistant", idx,
                                                RawLineOf(first))))
            ELSE AssistantLoop(items, idx + 1, first, events)

\* extract_assistant_events: content that is no array of items yields nothing
extract_assistant_events(content) ==
    IF content.form = "items" THEN AssistantLoop(content.items, 1, TRUE, <<>>)
    ELSE <<>>

RECURSIVE ToolResultLoop(_, _, _, _)
\* extract_tool_results_from_items, its loop
ToolResultLoop(items, idx, first, events) ==
    IF idx > Len(items) THEN events
    ELSE LET it == items[idx]
         IN IF it.type = "tool_result" /\ it.result = "some"
            THEN ToolResultLoop(items, idx + 1, FALSE,
                     Append(events, ParsedEvent("tool", "tool_result", idx,
                                                RawLineOf(first))))
            ELSE ToolResultLoop(items, idx + 1, first, events)

extract_tool_results_from_items(items) == ToolResultLoop(items, 1, TRUE, <<>>)

\* extract_user_content_from_items: the texts of the text items joined with
\* newlines; None without parts (no tool_result item is among the items here)
extract_user_content_from_items(items) ==
    LET parts == {i \in 1..Len(items) :
                     items[i].type = "text" /\ items[i].text /= "None"}
    IN IF parts = {} THEN "None"
       ELSE IF \A i \in parts : items[i].text = "blank" THEN "blank"
       ELSE "some"

extract_user_events(content) ==
    IF content.form = "items"
    THEN IF \E i \in 1..Len(content.items) : content.items[i].type = "tool_result"
         THEN extract_tool_results_from_items(content.items)
         ELSE IF extract_user_content_from_items(content.items) = "some"
              THEN <<ParsedEvent("user", "user", 0, "Some")>>
              ELSE <<>>
    ELSE IF content.form = "string" /\ content.text = "some"
         THEN <<ParsedEvent("user", "user", 0, "Some")>>
         ELSE <<>>

\* extract_events: the events one source line adds
extract_events(obj) ==
    IF obj.type \in {"summary", "file-history-snapshot", "progress"} THEN <<>>
    ELSE IF obj.message.form = "none" THEN <<>>
    ELSE IF obj.type = "user" THEN extract_user_events(obj.message)
    ELSE IF obj.type = "assistant" THEN extract_assistant_events(obj.message)
    ELSE <<>>

NoLine == [type |-> "summary",
           message |-> [form |-> "none", text |-> "None", items |-> <<>>]]

NotExtracted == [done |-> FALSE, events |-> <<>>]

\* the parser is not running
ParserIdle ==
    /\ file_pad = 0
    /\ file_body = <<>>
    /\ whole = NoResult
    /\ upto = NoResult
    /\ raw_obj = NoLine
    /\ extracted = NotExtracted


\* ------------------------------------------------- the components at rest
\* SessionWatcher::new: an empty channel (or one that a burst has filled up to
\* ChanRoom free slots), no next_batch call in progress
WATCHER_CHANNEL_CAPACITY == 2048

WatcherIdle ==
    /\ chan_old = 0
    /\ chan = <<>>
    /\ dropped_events = 0
    /\ wpc = "idle"
    /\ collected = {}
    /\ waited = 0
    /\ deadline = 0
    /\ handed = <<>>

\* a thread of the tracker's callers that is inside no call
NoCall == [op |-> "none", at |-> "out", n |-> 0, k |-> 0, log |-> FALSE,
           some |-> FALSE, total |-> 0]

\* ConsecutiveErrorTracker::new, nobody calling
TrackerIdle ==
    /\ consecutive = 0
    /\ total_since_reset = 0
    /\ first_error_at = "None"
    /\ callers = {}
    /\ call = <<>>
    /\ run_len = 0
    /\ made = 0
    /\ reported = 0
    /\ error_cap = 0

\* no file under a name of the outbox directory
NoFile == [kind |-> "absent", sid |-> "", age |-> 0]

\* an empty outbox directory, no drain_outbox call in progress
OutboxIdle ==
    /\ outbox = <<>>
    /\ listed = <<>>
    /\ entries = <<>>
    /\ by_session = <<>>
    /\ dpc = "idle"
    /\ posts = <<>>

\* no spool row under retry
NoEntry == [retry_count |-> 0, status |-> "none", delay |-> 0, max |-> 0]

RetryIdle ==
    /\ entry = NoEntry
    /\ attempts = 0

DequeueIdle ==
    /\ dq_table = {}
    /\ dq_limit = 0
    /\ dq_batch = <<>>

\* no response yet
NoAnswer == [status |-> 0, retry_after |-> <<>>]

ShipIdle ==
    /\ max_retries_429 = 0
    /\ ship_pc = "idle"
    /\ retries = 0
    /\ backoff = 0
    /\ requests = 0
    /\ response = NoAnswer
    /\ slept = 0
    /\ ship_result = "none"

PathsIdle ==
    /\ parse_offset = 0
    /\ by_mmap = [done |-> FALSE, events |-> <<>>, last_good_offset |-> 0]
    /\ by_buffered = [done |-> FALSE, events |-> <<>>, last_good_offset |-> 0]

ScanIdle ==
    /\ scan_lines = <<>>
    /\ scan_acked = <<>>
    /\ scan_pc = "idle"
    /\ scan_todo = <<>>
    /\ scans = 0
    /\ parsed_in_scan = {}

StateIdle ==
    /\ ostate = <<>>
    /\ instant = 0
    /\ ocall = <<>>

UnitsIdle == DequeueIdle /\ ShipIdle /\ PathsIdle /\ ScanIdle /\ StateIdle

ComponentsIdle ==
    WatcherIdle /\ TrackerIdle /\ OutboxIdle /\ RetryIdle /\ UnitsIdle

\* ------------------------------------------------------------ OfflineState
\* OfflineState::new; offline_since is an Option<Instant>: "None" or "Some"
OfflineNew == [is_offline |-> FALSE, offline_since |-> "None",
               consecutive_failures |-> 0]

\* OfflineState::mark_offline
mark_offline(o) ==
    [is_offline |-> TRUE,
     offline_since |-> IF ~o.is_offline THEN "Some" ELSE o.offline_since,
     consecutive_failures |-> o.consecutive_failures + 1]

mark_online_KeepSince(o) ==
    IF o.is_offline
    THEN [is_offline |-> FALSE, offline_since |-> o.offline_since,
          consecutive_failures |-> 0]
    ELSE o

\* OfflineState::mark_online
mark_online(o) ==
    IF o.is_offline
    THEN [is_offline |-> FALSE, offline_since |-> "None", consecutive_failures |-> 0]
    ELSE o

\* the locals of daemon::run as the event loop is entered
LoopEntry ==
    /\ branch = "select"
    /\ remaining = <<>>
    /\ had_connect_error = FALSE
    /\ await_probe = FALSE
    /\ wire = "none"
    /\ status_file = "none"

\* the state DB as open_db creates it, no process running
DaemonIdle ==
    /\ lines = [p \in Paths |-> <<>>]
    /\ exists = [p \in Paths |-> FALSE]
    /\ rewritten = [p \in Paths |-> FALSE]
    /\ fs = [p \in Paths |-> NoRow]
    /\ spool = {}
    /\ filler \in {0, MAX_QUEUE_SIZE - SpoolRoom}
    /\ fillerOld = FALSE
    /\ nextRow = 1
    /\ proc = "down"
    /\ pc = "idle"
    /\ item = NoItem
    /\ result = "none"
    /\ batch = <<>>
    /\ scanned = {}
    /\ phase = "normal"
    /\ last = NoOp
    /\ offline = OfflineNew
    /\ reachable = TRUE
    /\ LoopEntry

Init == DaemonIdle /\ ParserIdle /\ ComponentsIdle

\* ------------------------------------------------- the writer and the clock
\* The session writer appends bytes: it continues the unterminated line or
\* starts the next one.
AppendBytes(p) ==
    /\ \/ /\ LastIncomplete(p)
          /\ \E n \in (lines[p][Len(lines[p])].len + 1)..LineLen :
                lines' = [lines EXCEPT ![p][Len(lines[p])].len = n]
       \/ /\ ~LastIncomplete(p)
          /\ Len(lines[p]) < MaxLines
          /\ \E n \in 1..LineLen :
                lines' = [lines EXCEPT ![p] = Append(@, [len |-> n, done |-> FALSE])]
    /\ exists' = [exists EXCEPT ![p] = TRUE]
    /\ last' = NoOp
    /\ phase' = phase
    /\ UNCHANGED <<rewritten, storeVars, proc, pc, flightVars, scanned>>

\* The file is cut to zero length (and may be rewritten by later appends).
Truncate(p) ==
    /\ exists[p]
    /\ lines[p] /= <<>>
    /\ lines' = [lines EXCEPT ![p] = <<>>]
    /\ rewritten' = [rewritten EXCEPT ![p] = TRUE]
    /\ item' = IF item.path = p THEN [item EXCEPT !.events = {}] ELSE item
    /\ last' = NoOp
    /\ phase' = "normal"
    /\ UNCHANGED <<exists, storeVars, proc, pc, result, batch, scanned>>

\* The file is removed from disk.
Delete(p) ==
    /\ exists[p]
    /\ exists' = [exists EXCEPT ![p] = FALSE]
    /\ lines' = [lines EXCEPT ![p] = <<>>]
    /\ rewritten' = [rewritten EXCEPT ![p] = TRUE]
    /\ item' = IF item.path = p THEN [item EXCEPT !.events = {}] ELSE item
    /\ last' = NoOp
    /\ phase' = "normal"
    /\ UNCHANGED <<storeVars, proc, pc, result, batch, scanned>>

\* Every backoff (at most one hour) has elapsed.
BackoffElapses ==
    /\ \E r \in spool : r.status = "pending" /\ ~r.due
    /\ spool' = {[r EXCEPT !.due = TRUE] : r \in spool}
    /\ last' = NoOp
    /\ phase' = phase
    /\ UNCHANGED <<fileVars, fs, filler, fillerOld, nextRow, proc, pc, flightVars,
                   scanned>>

\* Thirty days pass: every file_state row is now outside the prune window and
\* every spool row outside the cleanup window.
MonthPasses ==
    /\ \/ \E p \in Paths : fs[p].tracked /\ ~fs[p].stale
       \/ \E r \in spool : ~r.old
       \/ filler > 0 /\ ~fillerOld
    /\ fs' = [p \in Paths |-> IF fs[p].tracked THEN [fs[p] EXCEPT !.stale = TRUE]
                              ELSE fs[p]]
    /\ spool' = {[r EXCEPT !.due = TRUE, !.old = TRUE] : r \in spool}
    /\ fillerOld' = (filler > 0)
    /\ last' = NoOp
    /\ phase' = "normal"
    /\ UNCHANGED <<fileVars, filler, nextRow, proc, pc, flightVars, scanned>>

\* -------------------------------------------------------- delivery logic
RECURSIVE EnqueueGaps(_, _, _, _)
\* The loop of run_startup_recovery over the unacked files: each gap is
\* enqueued in turn, each enqueue subject to the capacity test.
\* Returns <<rows, next id>>.
EnqueueGaps(todo, rows, fill, id) ==
    IF todo = {} THEN <<rows, id>>
    ELSE LET p == CHOOSE q \in todo : TRUE
             ok == CanEnqueue(rows, fill)
             rows2 == enqueue(rows, fill, id, fs[p].provider, p,
                              fs[p].acked_offset, fs[p].queued_offset,
                              fs[p].session_id)
         IN EnqueueGaps(todo \ {p}, rows2, fill, IF ok THEN id + 1 ELSE id)

\* run_startup_recovery: the spool table and the next id after it
run_startup_recovery == EnqueueGaps(get_unacked_files(fs), spool, filler, nextRow)

\* the rows prune_stale removes
Pruned(f) == {p \in DOMAIN f : f[p].tracked /\ prune_stale(f)[p] = NoRow}

PruneReport(f) ==
    IF Pruned(f) = {} THEN [NoOp EXCEPT !.op = "prune_stale"]
    ELSE LET p == CHOOSE q \in Pruned(f) : TRUE
         IN [NoOp EXCEPT !.op = "prune_stale", !.path = p,
                         !.events = Cardinality(Pruned(f)),
                         !.acked = get_offset(f, p)]

\* daemon::run up to the event loop: startup recovery, then prune_stale(30).
\* (The initial full scan and replay that follow are PrepareFile and Replay steps.)
StartDaemon ==
    /\ proc = "down"
    /\ nextRow + Cardinality(get_unacked_files(fs)) <= MaxRows + 1
    /\ spool' = run_startup_recovery[1]
    /\ nextRow' = run_startup_recovery[2]
    /\ fs' = prune_stale(fs)
    /\ proc' = "daemon"
    /\ pc' = "idle"
    /\ phase' = IF phase = "crashed" THEN "recovering" ELSE "normal"
    /\ last' = PruneReport(fs)
    /\ UNCHANGED <<fileVars, filler, fillerOld, flightVars, scanned>>

\* cmd_ship, its start: the same recovery loop inline (no prune)
StartCmdShip ==
    /\ proc = "down"
    /\ nextRow + Cardinality(get_unacked_files(fs)) <= MaxRows + 1
    /\ spool' = run_startup_recovery[1]
    /\ nextRow' = run_startup_recovery[2]
    /\ proc' = "bulk"
    /\ pc' = "idle"
    /\ scanned' = {}
    /\ phase' = "normal"
    /\ last' = [NoOp EXCEPT !.op = "cmd_ship_recovery"]
    /\ UNCHANGED <<fileVars, fs, filler, fillerOld, flightVars>>

\* prepare_file (and the filter + parse phases of cmd_ship, which make the same
\* decisions): stat, truncation reset, parse from the acked offset, build the item.
PrepareFile(p) ==
    /\ proc \in {"daemon", "bulk"}
    /\ pc = "idle"
    /\ proc = "bulk" => p \notin scanned
    /\ scanned' = IF proc = "bulk" THEN scanned \cup {p} ELSE scanned
    /\ LET current_offset == get_offset(fs, p)
           file_size == FileSize(p)
           truncated == exists[p] /\ file_size < current_offset
           offset == IF truncated THEN 0 ELSE current_offset
           events == ParseSessionFile(p, offset)
           none == \/ ~exists[p]
                   \/ file_size = current_offset
                   \/ events = {}
           it == [path |-> p, provider |-> ProviderOf(p), offset |-> offset,
                  new_offset |-> file_size, event_count |-> Cardinality(events),
                  session_id |-> SessionId(p), events |-> events]
       IN /\ fs' = IF truncated THEN reset_offsets(fs, p) ELSE fs
          /\ item' = IF none THEN NoItem ELSE it
          /\ pc' = IF none THEN "idle" ELSE "prepared"
          /\ last' = [NoOp EXCEPT !.op = "prepare_file", !.path = p,
                                  !.reset = truncated,
                                  !.events = IF none THEN 0 ELSE Cardinality(events),
                                  !.fresh = ~fs[p].tracked,
                                  !.acked = current_offset]
    /\ phase' = "normal"
    /\ UNCHANGED <<fileVars, spool, filler, fillerOld, nextRow, proc, result, batch>>

\* client.ship(item.compressed).await at the top of ship_and_record (and in the
\* ship loop of cmd_ship): the transport answers.
Post(out) ==
    /\ pc = "prepared"
    /\ out \in Transient => nextRow <= MaxRows
    /\ result' = out
    /\ lines' = IF out \in {"Ok", "ClientError"} THEN Answered(item.path, item.events)
                 ELSE lines
    /\ pc' = "posted"
    /\ last' = NoOp
    /\ phase' = "normal"
    /\ UNCHANGED <<exists, rewritten, storeVars, proc, item, batch, scanned>>

Completed(res, enq, n) ==
    [op |-> IF proc = "daemon" THEN "ship_and_record" ELSE "cmd_ship",
     path |-> item.path, result |-> res, enqueued |-> enq, events |-> n,
     reset |-> FALSE, fresh |-> ~fs[item.path].tracked,
     acked |-> get_offset(fs, item.path),
     is_connect_error |-> (res = "ConnectError")]

\* ship_and_record, ShipResult::Ok (cmd_ship has the same arm)
RecordOk ==
    /\ pc = "posted"
    /\ result = "Ok"
    /\ fs' = set_offset(fs, item.path, item.new_offset, item.session_id, item.provider)
    /\ last' = Completed("Ok", FALSE, item.event_count)
    /\ pc' = "idle"
    /\ item' = NoItem /\ result' = "none"
    /\ phase' = "normal"
    /\ UNCHANGED <<fileVars, spool, filler, fillerOld, nextRow, proc, batch, scanned>>

RecordClientError_NoAdvance ==
    /\ pc = "posted"
    /\ result = "ClientError"
    /\ last' = Completed("ClientError", FALSE, 0)
    /\ pc' = "idle"
    /\ item' = NoItem /\ result' = "none"
    /\ phase' = "normal"
    /\ UNCHANGED <<fileVars, storeVars, proc, batch, scanned>>

\* ship_and_record, ShipResult::ClientError (cmd_ship has the same arm)
RecordClientError ==
    /\ pc = "posted"
    /\ result = "ClientError"
    /\ fs' = set_offset(fs, item.path, item.new_offset, item.session_id, item.provider)
    /\ last' = Completed("ClientError", FALSE, 0)
    /\ pc' = "idle"
    /\ item' = NoItem /\ result' = "none"
    /\ phase' = "normal"
    /\ UNCHANGED <<fileVars, spool, filler, fillerOld, nextRow, proc, batch, scanned>>

QueuedAfterEnqueue_Always(f, ok, it) ==
    set_queued_offset(f, it.path, it.new_offset, it.provider, it.session_id)

\* ship_and_record, transient arm: `if enqueued { set_queued_offset(..) }`
QueuedAfterEnqueue(f, ok, it) ==
    IF ok
    THEN set_queued_offset(f, it.path, it.new_offset, it.provider, it.session_id)
    ELSE f

\* ship_and_record, transient arm: spool.enqueue, then queued_offset advances
\* only if the enqueue succeeded; the function returns (0, is_connect_error)
RecordTransient ==
    /\ proc = "daemon"
    /\ pc = "posted"
    /\ result \in Transient
    /\ spool' = enqueue(spool, filler, nextRow, item.provider, item.path,
                        item.offset, item.new_offset, item.session_id)
    /\ nextRow' = IF CanEnqueue(spool, filler) THEN nextRow + 1 ELSE nextRow
    /\ fs' = QueuedAfterEnqueue(fs, CanEnqueue(spool, filler), item)
    /\ last' = Completed(result, CanEnqueue(spool, filler), 0)
    /\ pc' = "idle"
    /\ item' = NoItem /\ result' = "none"
    /\ phase' = "normal"
    /\ UNCHANGED <<fileVars, filler, fillerOld, proc, batch, scanned>>

\* The process dies inside the transient arm of ship_and_record, after
\* spool.enqueue returned and before set_queued_offset ran.
CrashAfterEnqueue ==
    /\ proc = "daemon"
    /\ pc = "posted"
    /\ result \in Transient
    /\ spool' = enqueue(spool, filler, nextRow, item.provider, item.path,
                        item.offset, item.new_offset, item.session_id)
    /\ nextRow' = IF CanEnqueue(spool, filler) THEN nextRow + 1 ELSE nextRow
    /\ proc' = "down"
    /\ pc' = "idle"
    /\ item' = NoItem /\ result' = "none"
    /\ batch' = <<>>
    /\ phase' = "crashed"
    /\ last' = NoOp
    /\ UNCHANGED <<fileVars, fs, filler, fillerOld, scanned>>

\* cmd_ship, transient arm: set_queued_offset first, then spool.enqueue, whose
\* return value is dropped
BulkRecordTransient ==
    /\ proc = "bulk"
    /\ pc = "posted"
    /\ result \in Transient
    /\ fs' = set_queued_offset(fs, item.path, item.new_offset, "claude", item.session_id)
    /\ spool' = enqueue(spool, filler, nextRow, "claude", item.path,
                        item.offset, item.new_offset, item.session_id)
    /\ nextRow' = IF CanEnqueue(spool, filler) THEN nextRow + 1 ELSE nextRow
    /\ last' = Completed(result, CanEnqueue(spool, filler), 0)
    /\ pc' = "idle"
    /\ item' = NoItem /\ result' = "none"
    /\ phase' = "normal"
    /\ UNCHANGED <<fileVars, filler, fillerOld, proc, batch, scanned>>

\* replay_spool_batch, spool.dequeue_batch(limit) (cmd_ship replays inline once
\* its ship loop is over)
ReplayStart ==
    /\ proc \in {"daemon", "bulk"}
    /\ pc = "idle"
    /\ proc = "bulk" => scanned = Paths
    /\ \E limit \in IF proc = "daemon" THEN {REPLAY_LIMIT, STARTUP_REPLAY_LIMIT}
                    ELSE {BULK_REPLAY_LIMIT} :
          batch' = dequeue_batch(spool, limit)
    /\ pc' = "replay"
    /\ last' = NoOp
    /\ phase' = phase
    /\ UNCHANGED <<fileVars, storeVars, proc, item, result, scanned>>

Replayed(e, res, n) ==
    [op |-> "replay_entry", path |-> e.file_path, result |-> res, enqueued |-> FALSE,
     events |-> n, reset |-> FALSE, fresh |-> ~fs[e.file_path].tracked,
     acked |-> get_offset(fs, e.file_path), is_connect_error |-> FALSE]

\* replay_spool_batch, one turn of its loop over the dequeued entries
ReplayEntry ==
    /\ pc = "replay"
    /\ batch /= <<>>
    /\ LET e == Head(batch)
           p == e.file_path
           events == ParseSessionFile(p, e.start_offset)
           n == Cardinality(events)
       IN \/ /\ ~exists[p]                       \* file missing: dead at once
             /\ spool' = mark_failed_with_max(spool, e.id, 0)
             /\ batch' = Tail(batch)
             /\ last' = Replayed(e, "missing", 0)
             /\ phase' = "normal"
             /\ UNCHANGED <<fs, lines>>
          \/ /\ exists[p] /\ events = {}         \* nothing to ship in the range
             /\ spool' = mark_shipped(spool, e.id)
             /\ fs' = IF proc = "daemon" THEN set_acked_offset(fs, p, e.end_offset)
                      ELSE fs
             /\ batch' = Tail(batch)
             /\ last' = Replayed(e, "empty", 0)
             /\ phase' = phase
             /\ UNCHANGED lines
          \/ /\ exists[p] /\ events /= {}        \* ShipResult::Ok
             /\ spool' = mark_shipped(spool, e.id)
             /\ fs' = set_acked_offset(fs, p, e.end_offset)
             /\ lines' = Answered(p, events)
             /\ batch' = Tail(batch)
             /\ last' = Replayed(e, "Ok", n)
             /\ phase' = phase
          \/ /\ exists[p] /\ events /= {}        \* ShipResult::ConnectError: break
             /\ batch' = <<>>
             /\ last' = Replayed(e, "ConnectError", 0)
             /\ phase' = "normal"
             /\ UNCHANGED <<fs, spool, lines>>
          \/ /\ exists[p] /\ events /= {}        \* RateLimited | ServerError
             /\ e.retry_count < RetryCap
             /\ spool' = mark_failed(spool, e.id)
             /\ batch' = Tail(batch)
             /\ \E res \in {"RateLimited", "ServerError"} :
                   last' = Replayed(e, res, 0)
             /\ phase' = "normal"
             /\ UNCHANGED <<fs, lines>>
          \/ /\ exists[p] /\ events /= {}        \* ShipResult::ClientError: dead
             /\ spool' = mark_failed_with_max(spool, e.id, 0)
             /\ batch' = Tail(batch)
             /\ last' = Replayed(e, "ClientError", 0)
             /\ phase' = "normal"
             /\ UNCHANGED <<fs, lines>>
    /\ UNCHANGED <<exists, rewritten, filler, fillerOld, nextRow, proc, pc, item,
                   result, scanned>>

\* replay_spool_batch, after the loop: spool.cleanup(); cmd_ship then exits
ReplayEnd ==
    /\ pc = "replay"
    /\ batch = <<>>
    /\ spool' = cleanup(spool)
    /\ filler' = cleanup_filler(filler, fillerOld)
    /\ fillerOld' = FALSE
    /\ pc' = "idle"
    /\ proc' = IF proc = "bulk" THEN "down" ELSE proc
    /\ scanned' = {}
    /\ last' = [NoOp EXCEPT !.op = "replay_done"]
    /\ phase' = phase
    /\ UNCHANGED <<fileVars, fs, nextRow, flightVars>>

\* the daily prune timer of the event loop: prune_stale(30)
PruneStale ==
    /\ proc = "daemon"
    /\ pc = "idle"
    /\ fs' = prune_stale(fs)
    /\ last' = PruneReport(fs)
    /\ phase' = "normal"
    /\ UNCHANGED <<fileVars, spool, filler, fillerOld, nextRow, proc, pc, flightVars,
                   scanned>>

\* The process dies (kill, power loss, or a shutdown signal while idle): what
\* it held in memory is gone, the store keeps what was written.
Crash ==
    /\ proc /= "down"
    /\ phase' = IF proc = "daemon" /\ pc \in {"prepared", "posted"}
                THEN "crashed" ELSE "normal"
    /\ proc' = "down"
    /\ pc' = "idle"
    /\ item' = NoItem /\ result' = "none"
    /\ batch' = <<>>
    /\ scanned' = {}
    /\ last' = NoOp
    /\ UNCHANGED <<fileVars, storeVars>>

\* The delivery state machine of the daemon with its event loop left out: the
\* daemon takes its scan, ship and replay steps in any order, while the session
\* writer goes on and backoffs elapse.  The run is too short for the prune and
\* cleanup windows (30 and 7 days) to close.
Next ==
    \/ \E p \in Paths : AppendBytes(p) /\ UNCHANGED <<loopVars, parserVars, componentVars>>
    \/ \E p \in Paths : Truncate(p) /\ UNCHANGED <<loopVars, parserVars, componentVars>>
    \/ \E p \in Paths : Delete(p) /\ UNCHANGED <<loopVars, parserVars, componentVars>>
    \/ BackoffElapses /\ UNCHANGED <<loopVars, parserVars, componentVars>>
    \/ StartDaemon /\ UNCHANGED <<loopVars, parserVars, componentVars>>
    \/ \E p \in Paths : PrepareFile(p) /\ UNCHANGED <<loopVars, parserVars, componentVars>>
    \/ \E out \in ShipResult : Post(out) /\ UNCHANGED <<loopVars, parserVars, componentVars>>
    \/ RecordOk /\ UNCHANGED <<loopVars, parserVars, componentVars>>
    \/ RecordClientError /\ UNCHANGED <<loopVars, parserVars, componentVars>>
    \/ RecordTransient /\ UNCHANGED <<loopVars, parserVars, componentVars>>
    \/ CrashAfterEnqueue /\ UNCHANGED <<loopVars, parserVars, componentVars>>
    \/ ReplayStart /\ UNCHANGED <<loopVars, parserVars, componentVars>>
    \/ ReplayEntry /\ UNCHANGED <<loopVars, parserVars, componentVars>>
    \/ ReplayEnd /\ UNCHANGED <<loopVars, parserVars, componentVars>>
    \/ PruneStale /\ UNCHANGED <<loopVars, parserVars, componentVars>>
    \/ Crash /\ UNCHANGED <<loopVars, parserVars, componentVars>>

Spec == Init /\ [][Next]_vars

\* a replay attempt that was not answered RateLimited or ServerError
NoRetryLater == last'.result \notin {"RateLimited", "ServerError"}

\* The daemon over months: the same steps, and the prune and cleanup windows
\* close (MonthPasses); every replay attempt is settled at once, none is left
\* for a later retry.
AgeingNext ==
    \/ \E p \in Paths : AppendBytes(p) /\ UNCHANGED <<loopVars, parserVars, componentVars>>
    \/ \E p \in Paths : Truncate(p) /\ UNCHANGED <<loopVars, parserVars, componentVars>>
    \/ \E p \in Paths : Delete(p) /\ UNCHANGED <<loopVars, parserVars, componentVars>>
    \/ MonthPasses /\ UNCHANGED <<loopVars, parserVars, componentVars>>
    \/ StartDaemon /\ UNCHANGED <<loopVars, parserVars, componentVars>>
    \/ \E p \in Paths : PrepareFile(p) /\ UNCHANGED <<loopVars, parserVars, componentVars>>
    \/ \E out \in ShipResult : Post(out) /\ UNCHANGED <<loopVars, parserVars, componentVars>>
    \/ RecordOk /\ UNCHANGED <<loopVars, parserVars, componentVars>>
    \/ RecordClientError /\ UNCHANGED <<loopVars, parserVars, componentVars>>
    \/ RecordTransient /\ UNCHANGED <<loopVars, parserVars, componentVars>>
    \/ CrashAfterEnqueue /\ UNCHANGED <<loopVars, parserVars, componentVars>>
    \/ ReplayStart /\ UNCHANGED <<loopVars, parserVars, componentVars>>
    \/ ReplayEntry /\ NoRetryLater /\ UNCHANGED <<loopVars, parserVars, componentVars>>
    \/ ReplayEnd /\ UNCHANGED <<loopVars, parserVars, componentVars>>
    \/ PruneStale /\ UNCHANGED <<loopVars, parserVars, componentVars>>
    \/ Crash /\ UNCHANGED <<loopVars, parserVars, componentVars>>

AgeingSpec == Init /\ [][AgeingNext]_vars

\* The `ship` command on the same store and files: recovery, the ship loop over
\* the files, the replay, exit; it may be run again.
CmdShipNext ==
    \/ \E p \in Paths : AppendBytes(p) /\ UNCHANGED <<loopVars, parserVars, componentVars>>
    \/ \E p \in Paths : Truncate(p) /\ UNCHANGED <<loopVars, parserVars, componentVars>>
    \/ \E p \in Paths : Delete(p) /\ UNCHANGED <<loopVars, parserVars, componentVars>>
    \/ BackoffElapses /\ UNCHANGED <<loopVars, parserVars, componentVars>>
    \/ StartCmdShip /\ UNCHANGED <<loopVars, parserVars, componentVars>>
    \/ \E p \in Paths : PrepareFile(p) /\ UNCHANGED <<loopVars, parserVars, componentVars>>
    \/ \E out \in ShipResult : Post(out) /\ UNCHANGED <<loopVars, parserVars, componentVars>>
    \/ RecordOk /\ UNCHANGED <<loopVars, parserVars, componentVars>>
    \/ RecordClientError /\ UNCHANGED <<loopVars, parserVars, componentVars>>
    \/ BulkRecordTransient /\ UNCHANGED <<loopVars, parserVars, componentVars>>
    \/ ReplayStart /\ UNCHANGED <<loopVars, parserVars, componentVars>>
    \/ ReplayEntry /\ UNCHANGED <<loopVars, parserVars, componentVars>>
    \/ ReplayEnd /\ UNCHANGED <<loopVars, parserVars, componentVars>>
    \/ Crash /\ UNCHANGED <<loopVars, parserVars, componentVars>>

CmdShipSpec == Init /\ [][CmdShipNext]_vars

\* ------------------------------------------ the event loop of daemon::run
\* The daemon in its event loop, with two session files.  The ship, replay and
\* prune steps are those of the delivery state machine above, taken where the
\* loop calls them; the loop adds its branches, the OfflineState and the server.
LoopPaths == {"a.jsonl", "b.jsonl"}
LoopLines == 1     \* lines a file holds at most in LoopSpec

\* the sequences that list every element of S once
Orders(S) ==
    {s \in [1..Cardinality(S) -> S] : \A i, j \in 1..Cardinality(S) :
                                         s[i] = s[j] => i = j}

LoopInit ==
    /\ lines = [p \in LoopPaths |-> <<>>]
    /\ exists = [p \in LoopPaths |-> FALSE]
    /\ rewritten = [p \in LoopPaths |-> FALSE]
    /\ fs = [p \in LoopPaths |-> NoRow]
    /\ spool = {}
    /\ filler \in {0, MAX_QUEUE_SIZE - SpoolRoom}
    /\ fillerOld = FALSE
    /\ nextRow = 1
    /\ proc = "daemon"
    /\ pc = "idle"
    /\ item = NoItem
    /\ result = "none"
    /\ batch = <<>>
    /\ scanned = {}
    /\ phase = "normal"
    /\ last = NoOp
    /\ offline = OfflineNew
    /\ reachable \in BOOLEAN
    /\ LoopEntry
    /\ ParserIdle
    /\ ComponentsIdle

\* what a step that sends nothing and is no part of a branch leaves alone
Aside == UNCHANGED <<offline, branch, remaining, had_connect_error, await_probe,
                     status_file>>

\* the server goes down or comes back
ServerChanges ==
    /\ reachable' = ~reachable
    /\ wire' = "none"
    /\ Aside
    /\ UNCHANGED deliveryVars

\* the session writer
Writes(p) ==
    /\ LastIncomplete(p) \/ Len(lines[p]) < LoopLines
    /\ AppendBytes(p)
    /\ wire' = "none"
    /\ Aside
    /\ UNCHANGED reachable

\* the retry backoff of the spooled rows elapses
Waits ==
    /\ BackoffElapses
    /\ wire' = "none"
    /\ Aside
    /\ UNCHANGED reachable

\* `_ = shutdown_signal()`, and the watcher branch finding its channel closed:
\* break
Shutdown ==
    /\ branch = "select"
    /\ branch' = "stopped"
    /\ wire' = "none"
    /\ UNCHANGED <<deliveryVars, offline, reachable, remaining, had_connect_error,
                   await_probe, status_file>>

\* `_ = health_timer.tick(), if offline.is_offline`: client.health_check(), which
\* is Ok(true) when the server answers 2xx
HealthCheck ==
    /\ branch = "select"
    /\ offline.is_offline
    /\ offline' = IF reachable THEN mark_online(offline) ELSE offline
    /\ await_probe' = IF reachable THEN FALSE ELSE await_probe
    /\ wire' = "health"
    /\ UNCHANGED <<deliveryVars, reachable, branch, remaining, had_connect_error,
                   status_file>>

WatcherBatch_Ungated ==
    /\ branch = "select"
    /\ pc = "idle"
    /\ \E S \in SUBSET LoopPaths : S /= {} /\ remaining' \in Orders(S)
    /\ branch' = "watcher"
    /\ had_connect_error' = FALSE
    /\ wire' = "none"
    /\ UNCHANGED <<deliveryVars, offline, reachable, await_probe, status_file>>

\* `batch = watcher.next_batch(..), if !offline.is_offline`, Some(paths) with
\* paths not empty: ship_batch is entered (the paths come out of a HashSet)
WatcherBatch ==
    /\ branch = "select"
    /\ ~offline.is_offline
    /\ pc = "idle"
    /\ \E S \in SUBSET LoopPaths : S /= {} /\ remaining' \in Orders(S)
    /\ branch' = "watcher"
    /\ had_connect_error' = FALSE
    /\ wire' = "none"
    /\ UNCHANGED <<deliveryVars, offline, reachable, await_probe, status_file>>

\* `_ = fallback_timer.tick(), if !offline.is_offline`: full_scan is entered
\* with the files discovery finds on disk
FallbackScan ==
    /\ branch = "select"
    /\ ~offline.is_offline
    /\ pc = "idle"
    /\ remaining' \in Orders({p \in LoopPaths : exists[p]})
    /\ branch' = "fallback"
    /\ had_connect_error' = FALSE
    /\ wire' = "none"
    /\ UNCHANGED <<deliveryVars, offline, reachable, await_probe, status_file>>

\* ship_batch and full_scan, one turn of the loop: prepare_file; None goes on
\* to the next path
ShipPrepare ==
    /\ branch \in {"watcher", "fallback"}
    /\ remaining /= <<>>
    /\ PrepareFile(Head(remaining))
    /\ remaining' = IF pc' = "idle" THEN Tail(remaining) ELSE remaining
    /\ wire' = "none"
    /\ UNCHANGED <<offline, reachable, branch, had_connect_error, await_probe,
                   status_file>>

\* client.ship inside ship_and_record: the POST to the ingest endpoint, which
\* ends in ConnectError exactly when the server cannot be reached
ShipPost ==
    /\ branch \in {"watcher", "fallback"}
    /\ \E out \in ShipResult :
          /\ (out = "ConnectError") <=> ~reachable
          /\ Post(out)
          /\ await_probe' = (await_probe \/ out = "ConnectError")
    /\ wire' = "ingest"
    /\ UNCHANGED <<offline, reachable, branch, remaining, had_connect_error,
                   status_file>>

\* the rest of ship_and_record and what its caller does with the pair it
\* returns: ship_batch keeps is_connect_err in had_connect_error, full_scan
\* binds it to `_is_connect_err`; both go on to the next path
ShipRecord(Record) ==
    /\ branch \in {"watcher", "fallback"}
    /\ Record
    /\ had_connect_error' = (had_connect_error \/ last'.is_connect_error)
    /\ remaining' = Tail(remaining)
    /\ wire' = "none"
    /\ UNCHANGED <<offline, reachable, branch, await_probe, status_file>>

WatcherDone_NoMark ==
    /\ branch = "watcher"
    /\ remaining = <<>>
    /\ pc = "idle"
    /\ offline' = offline
    /\ branch' = "select"
    /\ had_connect_error' = FALSE
    /\ wire' = "none"
    /\ UNCHANGED <<deliveryVars, reachable, remaining, await_probe, status_file>>

\* the watcher branch after ship_batch returned (had_connect_error, events)
WatcherDone ==
    /\ branch = "watcher"
    /\ remaining = <<>>
    /\ pc = "idle"
    /\ offline' = IF had_connect_error THEN mark_offline(offline) ELSE offline
    /\ branch' = "select"
    /\ had_connect_error' = FALSE
    /\ wire' = "none"
    /\ UNCHANGED <<deliveryVars, reachable, remaining, await_probe, status_file>>

\* the fallback branch after full_scan returned Ok((files, events)).  (full_scan
\* returns Err only when a statement of the store fails inside ship_and_record;
\* a ShipResult is never turned into an Err.)
FallbackDone ==
    /\ branch = "fallback"
    /\ remaining = <<>>
    /\ pc = "idle"
    /\ branch' = "select"
    /\ had_connect_error' = FALSE
    /\ wire' = "none"
    /\ UNCHANGED <<deliveryVars, offline, reachable, remaining, await_probe,
                   status_file>>

\* `_ = spool_timer.tick(), if !offline.is_offline`: replay_spool_batch(.., 50)
\* is entered
SpoolReplay ==
    /\ branch = "select"
    /\ ~offline.is_offline
    /\ ReplayStart
    /\ branch' = "spool"
    /\ had_connect_error' = FALSE
    /\ wire' = "none"
    /\ UNCHANGED <<offline, reachable, remaining, await_probe, status_file>>

\* replay_spool_batch, one entry; its POST ends in ConnectError exactly when the
\* server cannot be reached
SpoolEntry ==
    /\ branch = "spool"
    /\ ReplayEntry
    /\ last'.result \in ShipResult => ((last'.result = "ConnectError") <=> ~reachable)
    /\ wire' = IF last'.result \in ShipResult THEN "ingest" ELSE "none"
    /\ await_probe' = (await_probe \/ last'.result = "ConnectError")
    /\ had_connect_error' = (had_connect_error \/ last'.result = "ConnectError")
    /\ UNCHANGED <<offline, reachable, branch, remaining, status_file>>

\* the spool branch after replay_spool_batch returned Ok((ok, fail))
SpoolDone ==
    /\ branch = "spool"
    /\ ReplayEnd
    /\ branch' = "select"
    /\ had_connect_error' = FALSE
    /\ wire' = "none"
    /\ UNCHANGED <<offline, reachable, remaining, await_probe, status_file>>

\* `_ = prune_timer.tick()`
DailyPrune ==
    /\ branch = "select"
    /\ PruneStale
    /\ wire' = "none"
    /\ Aside
    /\ UNCHANGED reachable

\* `_ = heartbeat_timer.tick()`: write_status_file, then send_heartbeat when
\* online (its outcome is only logged)
Heartbeat ==
    /\ branch = "select"
    /\ status_file' = IF offline.is_offline THEN "offline" ELSE "online"
    /\ wire' = IF ~offline.is_offline THEN "heartbeat" ELSE "none"
    /\ UNCHANGED <<deliveryVars, offline, reachable, branch, remaining,
                   had_connect_error, await_probe>>

LoopNext ==
    \/ ServerChanges /\ UNCHANGED <<parserVars, componentVars>>
    \/ \E p \in LoopPaths : Writes(p) /\ UNCHANGED <<parserVars, componentVars>>
    \/ Waits /\ UNCHANGED <<parserVars, componentVars>>
    \/ Shutdown /\ UNCHANGED <<parserVars, componentVars>>
    \/ HealthCheck /\ UNCHANGED <<parserVars, componentVars>>
    \/ WatcherBatch /\ UNCHANGED <<parserVars, componentVars>>
    \/ FallbackScan /\ UNCHANGED <<parserVars, componentVars>>
    \/ ShipPrepare /\ UNCHANGED <<parserVars, componentVars>>
    \/ ShipPost /\ UNCHANGED <<parserVars, componentVars>>
    \/ ShipRecord(RecordOk) /\ UNCHANGED <<parserVars, componentVars>>
    \/ ShipRecord(RecordClientError) /\ UNCHANGED <<parserVars, componentVars>>
    \/ ShipRecord(RecordTransient) /\ UNCHANGED <<parserVars, componentVars>>
    \/ WatcherDone /\ UNCHANGED <<parserVars, componentVars>>
    \/ FallbackDone /\ UNCHANGED <<parserVars, componentVars>>
    \/ SpoolReplay /\ UNCHANGED <<parserVars, componentVars>>
    \/ SpoolEntry /\ UNCHANGED <<parserVars, componentVars>>
    \/ SpoolDone /\ UNCHANGED <<parserVars, componentVars>>
    \/ DailyPrune /\ UNCHANGED <<parserVars, componentVars>>
    \/ Heartbeat /\ UNCHANGED <<parserVars, componentVars>>

LoopSpec == LoopInit /\ [][LoopNext]_vars

\* The health timer keeps ticking, and select! polls its branch first.
LoopFair == LoopSpec /\ WF_vars(HealthCheck /\ UNCHANGED <<parserVars, componentVars>>)

\* ------------------------------------------------ the parser on a file
\* a file of up to MaxBytes bytes, alone or after a blank line that makes it
\* larger than MMAP_THRESHOLD
ParseInit ==
    /\ DaemonIdle
    /\ ComponentsIdle
    /\ file_pad \in {0, MMAP_THRESHOLD}
    /\ file_body \in UNION {[1..n -> Bytes] : n \in 0..MaxBytes}
    /\ whole = NoResult
    /\ upto = NoResult
    /\ raw_obj = NoLine
    /\ extracted = NotExtracted

\* parse_session_file on the file as it is
ParseWhole ==
    /\ ~whole.done
    /\ whole' = parse_session_file(TheFile)
    /\ UNCHANGED <<file_pad, file_body, upto, raw_obj, extracted, deliveryVars,
                   loopVars, componentVars>>

\* parse_session_file on the file cut just past its last newline
ParseUpToNewline ==
    /\ ~upto.done
    /\ upto' = parse_session_file(Prefix(TheFile, PastLastNewline(TheFile)))
    /\ UNCHANGED <<file_pad, file_body, whole, raw_obj, extracted, deliveryVars,
                   loopVars, componentVars>>

ParseNext == ParseWhole \/ ParseUpToNewline

ParseSpec == ParseInit /\ [][ParseNext]_vars

\* ------------------------------------------------------------ properties
Shipped(r) == r.op \in {"ship_and_record", "cmd_ship"}

SpoolFull == total_size(spool, filler) >= MAX_QUEUE_SIZE

\* Line i of file p can still be delivered: it was answered already, or it
\* begins at or after the acked offset (so a later prepare_file parses it), or
\* a pending spool entry of the file starts at or before it (so a replay, which
\* parses from start_offset to the end of the file, reads it).
Deliverable(p, i) ==
    \/ lines[p][i].done
    \/ LineStart(p, i) >= get_offset(fs, p)
    \/ \E r \in spool : /\ r.status = "pending"
                        /\ r.file_path = p
                        /\ r.start_offset <= LineStart(p, i)

\* C1: no event is lost.  In a file that was never truncated, no complete
\* event-bearing line is skipped permanently: every such line has been answered
\* or is still ahead of the acked cursor or of a pending spool entry, so that
\* the scans and replays that keep running can still deliver it.
C1_NoLineSkippedPermanently ==
    \A p \in Paths :
        (exists[p] /\ ~rewritten[p]) =>
            \A i \in 1..Len(lines[p]) :
                Complete(lines[p][i]) => Deliverable(p, i)

\* C2 as stated: get_offset(path) decreases only by reset_offsets (which only
\* the truncation branch of prepare_file calls).
C2_MonotonicExceptReset ==
    [][\A p \in Paths :
          get_offset(fs', p) < get_offset(fs, p) =>
              (last'.op = "prepare_file" /\ last'.path = p /\ last'.reset)]_vars

\* C2 amended: get_offset(path) decreases only by reset_offsets, or when
\* prune_stale deletes the row of a path that is gone from disk and was not
\* updated within the window (get_offset then returns 0).
C2_MonotonicExceptResetOrPrune ==
    [][\A p \in Paths :
          get_offset(fs', p) < get_offset(fs, p) =>
              \/ last'.op = "prepare_file" /\ last'.path = p /\ last'.reset
              \/ /\ last'.op = "prune_stale"
                 /\ fs[p].tracked /\ fs[p].stale /\ ~exists[p]
                 /\ ~fs'[p].tracked]_vars

\* prune_stale has just removed the row of a file whose acked offset was positive
C2_Witness ==
    /\ last.op = "prune_stale"
    /\ last.events > 0
    /\ last.acked > 0
    /\ get_offset(fs, last.path) = 0

\* C3: in every reachable state, every tracked file has
\* 0 <= acked_offset <= queued_offset.
C3_AckedAtMostQueued ==
    \A p \in Paths :
        fs[p].tracked =>
            0 <= fs[p].acked_offset /\ fs[p].acked_offset <= fs[p].queued_offset

\* C4: gap closure.  After a crash inside ship_and_record, once
\* run_startup_recovery has run and replay_spool_batch cycles, all answered
\* with 2xx, have emptied the spool of pending entries, every tracked file has
\* queued_offset = acked_offset.
C4_GapClosed ==
    (/\ phase = "recovering"
     /\ last.op = "replay_done"
     /\ pending_count(spool) = 0) =>
        \A p \in Paths :
            (fs[p].tracked /\ ~rewritten[p]) =>
                fs[p].queued_offset = fs[p].acked_offset

\* C5: acked_offset counts only confirmed bytes.  In a file that was never
\* truncated, every complete event-bearing line that has bytes below
\* acked_offset was contained in a payload answered with 2xx or skipped by a 4xx.
C5_AckedOnlyConfirmed ==
    \A p \in Paths :
        (exists[p] /\ ~rewritten[p]) =>
            \A i \in 1..Len(lines[p]) :
                (Complete(lines[p][i]) /\ LineStart(p, i) < get_offset(fs, p)) =>
                    lines[p][i].done

\* C6: spool boundedness.  The spool_queue table never holds more than
\* MAX_QUEUE_SIZE (10 000) rows, pending and dead together.
C6_SpoolBounded == total_size(spool, filler) <= MAX_QUEUE_SIZE

\* the table is full and an enqueue has just been rejected
C6_Witness ==
    /\ total_size(spool, filler) = MAX_QUEUE_SIZE
    /\ Shipped(last)
    /\ last.result \in Transient
    /\ ~last.enqueued

\* C7: backpressure in ship_and_record.  When the result is transient and the
\* spool is full, ship_and_record inserts no row and leaves both cursors of the
\* file as they were; the item's range still lies beyond acked_offset, and
\* unless the file was cut meanwhile its size is still > acked_offset and a
\* parse from acked_offset finds the item's events again.
C7_Backpressure ==
    [][(last'.op = "ship_and_record" /\ last'.result \in Transient /\ SpoolFull) =>
          LET p == item.path
          IN /\ spool' = spool
             /\ filler' = filler
             /\ fs'[p].tracked = fs[p].tracked
             /\ get_queued_offset(fs', p) = get_queued_offset(fs, p)
             /\ get_offset(fs', p) = get_offset(fs, p)
             /\ item.new_offset > get_offset(fs', p)
             /\ lines' = lines
             /\ (exists[p] /\ FileSize(p) >= item.new_offset) =>
                    /\ FileSize(p) > get_offset(fs', p)
                    /\ item.events \subseteq ParseSessionFile(p, get_offset(fs', p))
       ]_vars

\* ship_and_record has just returned from a transient failure with the spool
\* full, and the file is still longer than its acked offset
C7_Witness ==
    /\ last.op = "ship_and_record"
    /\ last.result = "ConnectError"
    /\ ~last.enqueued
    /\ SpoolFull
    /\ exists[last.path]
    /\ FileSize(last.path) > get_offset(fs, last.path)
    /\ get_offset(fs, last.path) = last.acked

\* the spool holds a row for the byte range of the item
HasRowFor(rows, it) ==
    \E r \in rows : /\ r.file_path = it.path
                    /\ r.start_offset = it.offset
                    /\ r.end_offset = it.new_offset

\* C8: in every delivery path, cmd_ship included, a transient failure whose
\* spool enqueue was rejected because the spool is full does not advance
\* queued_offset: no step of ship_and_record or cmd_ship moves queued_offset
\* while the spool ends up without a row for the item's range.
C8_NoAdvanceWhenRejected ==
    [][(/\ Shipped(last')
        /\ last'.result \in Transient
        /\ ~last'.enqueued
        /\ ~HasRowFor(spool', item)) =>
          get_queued_offset(fs', item.path) = get_queued_offset(fs, item.path)]_vars

\* C9: transient failure with spool room.  ship_and_record inserts exactly one
\* pending entry (provider, path, offset, new_offset, session_id), advances
\* queued_offset to max(queued_offset, new_offset), leaves acked_offset
\* unchanged and returns 0 events; for a file without a row and an empty spool,
\* queued is then the file size the item was prepared with, acked is 0 and the
\* spool has one row.
C9_TransientWithRoom ==
    [][(last'.op = "ship_and_record" /\ last'.result \in Transient /\ ~SpoolFull) =>
          LET p == item.path
          IN /\ \E r \in spool' :
                   /\ r \notin spool
                   /\ spool' = spool \cup {r}
                   /\ r.status = "pending"
                   /\ r.provider = item.provider
                   /\ r.file_path = p
                   /\ r.start_offset = item.offset
                   /\ r.end_offset = item.new_offset
                   /\ r.session_id = item.session_id
             /\ Cardinality(spool') = Cardinality(spool) + 1
             /\ get_queued_offset(fs', p) =
                    Max(get_queued_offset(fs, p), item.new_offset)
             /\ get_offset(fs', p) = get_offset(fs, p)
             /\ last'.enqueued
             /\ last'.events = 0
             /\ (~fs[p].tracked /\ spool = {}) =>
                    /\ get_queued_offset(fs', p) = item.new_offset
                    /\ get_offset(fs', p) = 0
                    /\ Cardinality(spool') = 1
       ]_vars

\* a first ship_and_record on a fresh file has just failed transiently:
\* queued = file size, acked = 0, one spool row
C9_Witness ==
    /\ last.op = "ship_and_record"
    /\ last.result \in Transient
    /\ last.enqueued
    /\ last.fresh
    /\ exists[last.path]
    /\ get_queued_offset(fs, last.path) = FileSize(last.path)
    /\ get_offset(fs, last.path) = 0
    /\ Cardinality(spool) = 1

\* C10: success path.  When the transport answers Ok, ship_and_record advances
\* queued_offset and acked_offset to max(current, new_offset), leaves the spool
\* as it was and returns the item's event count; on a file without a row,
\* acked_offset is then the file size the item was prepared with.
C10_SuccessPath ==
    [][(last'.op = "ship_and_record" /\ last'.result = "Ok") =>
          LET p == item.path
          IN /\ get_queued_offset(fs', p) =
                    Max(get_queued_offset(fs, p), item.new_offset)
             /\ get_offset(fs', p) = Max(get_offset(fs, p), item.new_offset)
             /\ spool' = spool
             /\ filler' = filler
             /\ last'.events = item.event_count
             /\ ~fs[p].tracked => get_offset(fs', p) = item.new_offset
       ]_vars

\* prepare_file plus ship_and_record with a 2xx on a new file of two events:
\* acked_offset = file size and the spool is empty
C10_Witness ==
    /\ last.op = "ship_and_record"
    /\ last.result = "Ok"
    /\ last.fresh
    /\ last.events = 2
    /\ exists[last.path]
    /\ get_offset(fs, last.path) = FileSize(last.path)
    /\ total_size(spool, filler) = 0

C12_ReplaySuccess ==
    [][(last'.op = "replay_entry" /\ last'.result = "Ok") =>
          LET e == Head(batch)
          IN /\ ~\E r \in spool' : r.id = e.id
             /\ get_offset(fs', e.file_path) =
                    Max(get_offset(fs, e.file_path), e.end_offset)
       ]_vars

\* C13: truncation recovery.  Once a truncated file has been recovered (it is
\* not empty and its cursors both equal its new size), they stay there: no
\* replay of an older spool entry of that file moves a cursor.
C13_TruncationRecoveryStays ==
    [][\A p \in Paths :
          (/\ last'.op = "replay_entry" /\ last'.path = p
           /\ rewritten[p] /\ exists[p] /\ fs[p].tracked
           /\ FileSize(p) > 0
           /\ fs[p].acked_offset = FileSize(p)
           /\ fs[p].queued_offset = FileSize(p)) =>
              /\ get_offset(fs', p) = get_offset(fs, p)
              /\ get_queued_offset(fs', p) = get_queued_offset(fs, p)
       ]_vars

\* ------------------------------------------- properties of the event loop
\* the step is the return of a ship_and_record call made by ship_batch
WatcherShipReturns == branch = "watcher" /\ pc = "posted" /\ pc' = "idle"

\* the step is the return of ship_batch to the watcher branch
WatcherBatchEnds == branch = "watcher" /\ branch' = "select"

\* the step removes no spool row and changes the status of none
RowsKept == \A r \in spool : \E q \in spool' : q.id = r.id /\ q.status = r.status

\* C14 as stated: when a ship_and_record call of a watcher batch reports
\* is_connect_error, the spool holds an entry for the failed range from then to
\* the end of the batch; when the batch ends is_offline is true and
\* offline_since is recorded; and no watcher batch starts while is_offline is
\* true, which only a successful health probe ends.
C14_ConnectErrorFlipsOffline ==
    [][/\ (WatcherShipReturns /\ last'.is_connect_error) => HasRowFor(spool', item)
       /\ branch = "watcher" => RowsKept
       /\ (WatcherBatchEnds /\ had_connect_error) =>
              offline'.is_offline /\ offline'.offline_since = "Some"
       /\ (branch = "select" /\ branch' = "watcher") => ~offline.is_offline
       /\ (offline.is_offline /\ ~offline'.is_offline) =>
              wire' = "health" /\ reachable
      ]_vars

\* C14 amended: the same, except that the spool entry for the failed range is
\* present only when the spool had room: when Spool::enqueue refused the entry
\* (the spool is at MAX_QUEUE_SIZE) the call still reports is_connect_error and
\* the daemon still goes offline, with the spool and the cursors as they were.
C14_ConnectErrorFlipsOfflineUnlessFull ==
    [][/\ (WatcherShipReturns /\ last'.is_connect_error) =>
              /\ last'.enqueued = (total_size(spool, filler) < MAX_QUEUE_SIZE)
              /\ last'.enqueued =>
                     \E r \in spool' \ spool : /\ r.file_path = item.path
                                               /\ r.start_offset = item.offset
                                               /\ r.end_offset = item.new_offset
                                               /\ r.status = "pending"
              /\ ~last'.enqueued => spool' = spool /\ fs' = fs
       /\ branch = "watcher" => RowsKept
       /\ (WatcherBatchEnds /\ had_connect_error) =>
              offline'.is_offline /\ offline'.offline_since = "Some"
       /\ (branch = "select" /\ branch' = "watcher") => ~offline.is_offline
       /\ (offline.is_offline /\ ~offline'.is_offline) =>
              wire' = "health" /\ reachable
      ]_vars

\* a watcher batch has ended with a connect error: the daemon is offline and the
\* failed range is in the spool
C14_Witness ==
    /\ branch = "select"
    /\ offline.is_offline /\ offline.offline_since = "Some"
    /\ last.op = "ship_and_record" /\ last.is_connect_error /\ last.enqueued
    /\ \E r \in spool : r.file_path = last.path /\ r.status = "pending"

\* C15: no step sends an ingest POST while a ship attempt has ended in
\* ConnectError and no health probe has succeeded since.
C15_NoPostBeforeProbe == [][wire' = "ingest" => ~await_probe]_vars

\* C16: when a full scan or a spool replay that met a ConnectError returns to
\* the event loop, is_offline is true.
C16_EveryConnectErrorMarksOffline ==
    [][(/\ branch \in {"fallback", "spool"}
        /\ branch' = "select"
        /\ had_connect_error) => offline'.is_offline]_vars

\* C17: while is_offline is true the loop is in no watcher, fallback or spool
\* branch and enters none, and no step POSTs a heartbeat; a heartbeat tick
\* stores the current is_offline in the status file; a health probe is sent
\* only while is_offline is true.
C17_OfflineGating ==
    [][/\ offline.is_offline => branch \in {"select", "stopped"}
       /\ offline'.is_offline => branch' \in {"select", "stopped"}
       /\ offline.is_offline => wire' \notin {"ingest", "heartbeat"}
       /\ status_file' /= status_file =>
              status_file' = IF offline.is_offline THEN "offline" ELSE "online"
       /\ wire' = "health" => offline.is_offline
      ]_vars

\* a heartbeat tick while offline: the status file says offline, nothing was sent
C17_Witness ==
    /\ offline.is_offline
    /\ status_file = "offline"
    /\ wire = "none"
    /\ \E r \in spool : r.status = "pending" /\ r.due

\* the server has come back for good and the loop keeps running
ServerStays == reachable /\ branch /= "stopped"

\* C18: a health probe is sent only while offline; one that is answered 2xx
\* sets is_offline to false and clears offline_since and the failure count, one
\* that fails leaves the OfflineState as it is; and if from some time on the
\* server stays reachable (and the daemon is not shut down), then from some
\* time on the daemon is online.
C18_RecoveryFromOffline ==
    /\ [][wire' = "health" =>
             /\ offline.is_offline
             /\ reachable => offline' = [is_offline |-> FALSE,
                                         offline_since |-> "None",
                                         consecutive_failures |-> 0]
             /\ ~reachable => offline' = offline
         ]_vars
    /\ (<>[]ServerStays => <>[]~offline.is_offline)

\* a probe has just brought the daemon back online, with entries to replay
C18_Witness ==
    /\ wire = "health"
    /\ offline = OfflineNew
    /\ ~await_probe
    /\ \E r \in spool : r.status = "pending"

\* -------------------------------------------- extraction from one line
ExtractInit ==
    /\ DaemonIdle
    /\ ComponentsIdle
    /\ file_pad = 0
    /\ file_body = <<>>
    /\ whole = NoResult
    /\ upto = NoResult
    /\ raw_obj \in RawLine
    /\ extracted = NotExtracted

\* extract_events on the line
Extract ==
    /\ ~extracted.done
    /\ extracted' = [done |-> TRUE, events |-> extract_events(raw_obj)]
    /\ UNCHANGED <<raw_obj, file_pad, file_body, whole, upto, deliveryVars, loopVars,
                   componentVars>>

ExtractNext == Extract

ExtractSpec == ExtractInit /\ [][ExtractNext]_vars

\* ------------------------------------------------ properties of the parser
\* the file ends in the middle of a line
EndsMidLine == file_body /= <<>> /\ file_body[Len(file_body)] /= "\n"

\* C19: when the file ends in the middle of a line, parsing it returns the same
\* events as parsing it cut just past its last newline, and a last_good_offset
\* that is at most that cut, on the buffered path and on the mmap path, also
\* when the unterminated tail is a well-formed record.
C19_PartialTailTolerance ==
    (EndsMidLine /\ whole.done /\ upto.done) =>
        /\ whole.events = upto.events
        /\ whole.last_good_offset <= PastLastNewline(TheFile)

\* C20: of the events the parser produces from one source line, when there is
\* at least one, exactly one carries raw_line and the others have none.
C20_RawLineUnique ==
    (extracted.done /\ Len(extracted.events) >= 1) =>
        Cardinality({i \in 1..Len(extracted.events) :
                        extracted.events[i].raw_line = "Some"}) = 1

\* an assistant line with skipped items among those that yield events
C20_Witness ==
    /\ extracted.done
    /\ raw_obj.type = "assistant"
    /\ Len(extracted.events) >= 2
    /\ Len(raw_obj.message.items) > Len(extracted.events)
    /\ \E i \in 1..Len(extracted.events) : extracted.events[i].idx > i

\* ------------------------------------------- the watcher channel, next_batch
ChanRoom == 2      \* free slots of the channel when the run starts behind a burst
FlushTicks == 2    \* flush_interval, in clock ticks
MaxWait == 4       \* clock ticks the model follows one next_batch call for
MaxDrops == 2      \* dropped paths the model counts

\* session files whose events pass the callback's filters; OldPath is the file
\* the paths of the earlier burst name
WatchPaths == {"a.jsonl", "b.jsonl"}
OldPath == "old.jsonl"

ChanLen == chan_old + Len(chan)

try_send_DropOldest(q, old, path) ==
    IF old + Len(q) >= WATCHER_CHANNEL_CAPACITY
    THEN [ok |-> FALSE, q |-> IF q = <<>> THEN q ELSE Append(Tail(q), path)]
    ELSE [ok |-> TRUE, q |-> Append(q, path)]

\* mpsc::Sender::try_send on the bounded channel: Err(Full) when no slot is free
try_send(q, old, path) ==
    IF old + Len(q) >= WATCHER_CHANNEL_CAPACITY
    THEN [ok |-> FALSE, q |-> q]
    ELSE [ok |-> TRUE, q |-> Append(q, path)]

\* mpsc::Receiver::recv with a path queued: the oldest path leaves the channel
RecvPath == IF chan_old > 0 THEN OldPath ELSE Head(chan)
RecvTaken ==
    /\ chan_old' = IF chan_old > 0 THEN chan_old - 1 ELSE 0
    /\ chan' = IF chan_old > 0 THEN chan ELSE Tail(chan)

WatchInit ==
    /\ DaemonIdle
    /\ ParserIdle
    /\ TrackerIdle /\ OutboxIdle /\ RetryIdle /\ UnitsIdle
    /\ chan_old \in {0, WATCHER_CHANNEL_CAPACITY - ChanRoom}
    /\ chan = <<>>
    /\ dropped_events = 0
    /\ wpc = "idle"
    /\ collected = {}
    /\ waited = 0
    /\ deadline = 0
    /\ handed = <<>>

\* the notify callback, for one path of the event that passed the kind,
\* extension and temp-file filters: try_send, and count the path when it fails
\* (the model follows MaxDrops drops and, behind the paths of the earlier
\* burst, ChanRoom + 1 queued paths)
Notify(p) ==
    /\ IF ChanLen >= WATCHER_CHANNEL_CAPACITY
       THEN dropped_events < MaxDrops
       ELSE Len(chan) <= ChanRoom
    /\ LET r == try_send(chan, chan_old, p)
       IN /\ chan' = r.q
          /\ dropped_events' = IF r.ok THEN dropped_events ELSE dropped_events + 1
    /\ UNCHANGED <<chan_old, wpc, collected, waited, deadline, handed>>

\* the event loop calls next_batch (the batch of the call before is consumed)
NextBatch ==
    /\ wpc \in {"idle", "returned"}
    /\ wpc' = "first"
    /\ collected' = {}
    /\ handed' = <<>>
    /\ waited' = 0
    /\ deadline' = 0
    /\ UNCHANGED <<chan_old, chan, dropped_events>>

\* next_batch: self.rx.recv().await yields the first path; the deadline is set
RecvFirst ==
    /\ wpc = "first"
    /\ ChanLen > 0
    /\ collected' = {RecvPath}
    /\ RecvTaken
    /\ waited' = 0
    /\ deadline' = FlushTicks
    /\ wpc' = "collecting"
    /\ UNCHANGED <<dropped_events, handed>>

RecvMore_Debounce ==
    /\ wpc = "collecting"
    /\ waited < deadline
    /\ ChanLen > 0
    /\ collected' = collected \cup {RecvPath}
    /\ RecvTaken
    /\ deadline' = waited + FlushTicks
    /\ UNCHANGED <<dropped_events, wpc, waited, handed>>

\* next_batch, the biased select!: the deadline has not passed and recv yields
\* a further path
RecvMore ==
    /\ wpc = "collecting"
    /\ waited < deadline
    /\ ChanLen > 0
    /\ collected' = collected \cup {RecvPath}
    /\ RecvTaken
    /\ UNCHANGED <<dropped_events, wpc, waited, deadline, handed>>

\* next_batch, the biased select!: sleep_until(deadline) is ready, polled first;
\* break and return the set as a Vec, in the order the HashSet iterates
Flush ==
    /\ wpc = "collecting"
    /\ waited >= deadline
    /\ handed' \in Orders(collected)
    /\ wpc' = "returned"
    /\ UNCHANGED <<chan_old, chan, dropped_events, collected, waited, deadline>>

\* the clock advances while next_batch collects; the timer fires when due
Tick ==
    /\ wpc = "collecting"
    /\ waited < deadline
    /\ waited < MaxWait
    /\ waited' = waited + 1
    /\ UNCHANGED <<chan_old, chan, dropped_events, wpc, collected, deadline, handed>>

besideWatcher == <<deliveryVars, loopVars, parserVars, trackerVars, outboxVars,
                   retryVars, unitVars>>

WatchNext ==
    \/ \E p \in WatchPaths : Notify(p) /\ UNCHANGED besideWatcher
    \/ NextBatch /\ UNCHANGED besideWatcher
    \/ RecvFirst /\ UNCHANGED besideWatcher
    \/ RecvMore /\ UNCHANGED besideWatcher
    \/ Flush /\ UNCHANGED besideWatcher
    \/ Tick /\ UNCHANGED besideWatcher

WatchSpec == WatchInit /\ [][WatchNext]_vars

NoDuplicates(s) == \A i, j \in 1..Len(s) : s[i] = s[j] => i = j

\* C21: a next_batch call that has received its first event is still collecting
\* only while at most flush_interval has passed since that event; while it
\* collects, its deadline stays where the first event put it and later events
\* only add to the batch; once flush_interval has passed it takes no further
\* path off the channel, however many are queued, and its next step returns the
\* batch, which is non-empty, has no duplicates and holds the paths collected.
C21_ThrottledBatch ==
    [][ /\ wpc' = "collecting" => waited' <= FlushTicks
        /\ (wpc = "collecting" /\ wpc' = "collecting") =>
               /\ deadline' = deadline
               /\ collected \subseteq collected'
        /\ (wpc = "collecting" /\ waited >= FlushTicks) =>
               /\ ChanLen' >= ChanLen
               /\ wpc' = "collecting" => (waited' = waited /\ collected' = collected)
        /\ (wpc = "collecting" /\ wpc' = "returned") =>
               /\ waited <= FlushTicks
               /\ handed' /= <<>>
               /\ NoDuplicates(handed')
               /\ {handed'[i] : i \in 1..Len(handed')} = collected
      ]_vars

\* a batch of two paths returned at the deadline with paths still queued
C21_Witness ==
    /\ wpc = "returned"
    /\ waited = FlushTicks
    /\ Len(handed) >= 2
    /\ ChanLen > 0

\* C22: the channel never holds more than 2048 paths; a path is counted as
\* dropped only when the channel is full, and then the channel keeps the paths
\* it held, in their order, the counter goes up by one and the consumer is
\* where it was; with the channel full the callback can take its step whatever
\* next_batch is doing.
C22_ChannelOverflow ==
    /\ [](ChanLen <= WATCHER_CHANNEL_CAPACITY)
    /\ []((ChanLen = WATCHER_CHANNEL_CAPACITY /\ dropped_events < MaxDrops) =>
              \A p \in WatchPaths : ENABLED Notify(p))
    /\ [][ /\ dropped_events' /= dropped_events =>
                  /\ ChanLen = WATCHER_CHANNEL_CAPACITY
                  /\ dropped_events' = dropped_events + 1
                  /\ chan' = chan /\ chan_old' = chan_old
                  /\ UNCHANGED <<wpc, collected, waited, deadline, handed>>
           /\ (ChanLen = WATCHER_CHANNEL_CAPACITY /\ ChanLen' = ChanLen) =>
                  /\ chan_old' = chan_old
                  /\ chan' = chan
         ]_vars

\* paths were dropped while next_batch was collecting
C22_Witness ==
    /\ dropped_events >= 2
    /\ ChanLen = WATCHER_CHANNEL_CAPACITY
    /\ wpc = "collecting"
    /\ chan /= <<>>

\* ---------------------------------------------- ConsecutiveErrorTracker
MaxErrors == 201   \* record_error calls of a run with one caller
RaceThreads == 2   \* threads that share the tracker in RaceSpec
RaceErrors == 3    \* record_error calls of a run of RaceSpec

LOG_EVERY == 100   \* record_error: (n + 1) % 100

should_log_Every100th(n) == n % LOG_EVERY = 0

\* record_error, its return value for the count n that fetch_add returned
should_log(n) == n = 0 \/ (n + 1) % LOG_EVERY = 0

Outside(t) == call[t].at = "out"

\* record_error: consecutive.fetch_add(1) (the runs followed stay far below the
\* 2^32 calls at which the AtomicU32 wraps)
ErrFetchAdd(t) ==
    /\ Outside(t)
    /\ made < error_cap
    /\ consecutive' = consecutive + 1
    /\ call' = [call EXCEPT ![t] = [op |-> "record_error", at |-> "added",
                                    n |-> consecutive, k |-> run_len + 1,
                                    log |-> FALSE, some |-> FALSE, total |-> 0]]
    /\ run_len' = run_len + 1
    /\ made' = made + 1
    /\ UNCHANGED <<total_since_reset, first_error_at, callers, reported, error_cap>>

\* record_error: total_since_reset.fetch_add(1)
ErrTotalAdd(t) ==
    /\ call[t].op = "record_error" /\ call[t].at = "added"
    /\ total_since_reset' = total_since_reset + 1
    /\ call' = [call EXCEPT ![t].at = "counted"]
    /\ UNCHANGED <<consecutive, first_error_at, callers, run_len, made, reported,
                   error_cap>>

\* record_error: the first error's time under the lock, and the return
ErrReturn(t) ==
    /\ call[t].op = "record_error" /\ call[t].at = "counted"
    /\ first_error_at' = IF call[t].n = 0 THEN "Some" ELSE first_error_at
    /\ call' = [call EXCEPT ![t].at = "out", ![t].log = should_log(call[t].n)]
    /\ UNCHANGED <<consecutive, total_since_reset, callers, run_len, made, reported,
                   error_cap>>

SuccSwap_Load(t) ==
    /\ Outside(t)
    /\ consecutive' = consecutive
    /\ call' = [call EXCEPT ![t] = [op |-> "record_success",
                                    at |-> IF consecutive > 0 THEN "swapped" ELSE "out",
                                    n |-> consecutive, k |-> run_len,
                                    log |-> FALSE, some |-> FALSE, total |-> 0]]
    /\ run_len' = 0
    /\ UNCHANGED <<total_since_reset, first_error_at, callers, made, reported,
                   error_cap>>

\* record_success: consecutive.swap(0); None when it was 0
SuccSwap(t) ==
    /\ Outside(t)
    /\ consecutive' = 0
    /\ call' = [call EXCEPT ![t] = [op |-> "record_success",
                                    at |-> IF consecutive > 0 THEN "swapped" ELSE "out",
                                    n |-> consecutive, k |-> run_len,
                                    log |-> FALSE, some |-> FALSE, total |-> 0]]
    /\ run_len' = 0
    /\ UNCHANGED <<total_since_reset, first_error_at, callers, made, reported,
                   error_cap>>

\* record_success, prev > 0: total_since_reset.swap(0), the first error's time
\* cleared under the lock, Some(total)
SuccReturn(t) ==
    /\ call[t].op = "record_success" /\ call[t].at = "swapped"
    /\ total_since_reset' = 0
    /\ first_error_at' = "None"
    /\ call' = [call EXCEPT ![t].at = "out", ![t].some = TRUE,
                            ![t].total = total_since_reset]
    /\ reported' = reported + total_since_reset
    /\ UNCHANGED <<consecutive, callers, run_len, made, error_cap>>

\* the tracker as ConsecutiveErrorTracker::new leaves it, shared by `threads`
TrackerNew(threads, cap) ==
    /\ DaemonIdle
    /\ ParserIdle
    /\ WatcherIdle /\ OutboxIdle /\ RetryIdle /\ UnitsIdle
    /\ consecutive = 0
    /\ total_since_reset = 0
    /\ first_error_at = "None"
    /\ callers = threads
    /\ call = [t \in threads |-> NoCall]
    /\ run_len = 0
    /\ made = 0
    /\ reported = 0
    /\ error_cap = cap

besideTracker == <<deliveryVars, loopVars, parserVars, watcherVars, outboxVars,
                   retryVars, unitVars>>

TrackerNext ==
    \/ \E t \in callers : ErrFetchAdd(t) /\ UNCHANGED besideTracker
    \/ \E t \in callers : ErrTotalAdd(t) /\ UNCHANGED besideTracker
    \/ \E t \in callers : ErrReturn(t) /\ UNCHANGED besideTracker
    \/ \E t \in callers : SuccSwap(t) /\ UNCHANGED besideTracker
    \/ \E t \in callers : SuccReturn(t) /\ UNCHANGED besideTracker

\* one caller, as in the daemon's single-threaded runtime
TrackerInit == TrackerNew({1}, MaxErrors)

TrackerSpec == TrackerInit /\ [][TrackerNext]_vars

\* several threads, their atomic operations interleaved
RaceInit == TrackerNew(1..RaceThreads, RaceErrors)

RaceSpec == RaceInit /\ [][TrackerNext]_vars

Returned(t, op) == call[t].op = op /\ call[t].at = "out"

\* C25: the k-th record_error call of a run of calls with no record_success in
\* between (k counted from 1 again after every record_success) returns true
\* exactly when k = 1 or k is a multiple of 100.
C25_RateLimitedLogging ==
    \A t \in callers :
        Returned(t, "record_error") =>
            (call[t].log <=> (call[t].k = 1 \/ call[t].k % 100 = 0))

\* the 100th error of a run that follows a recovery is logged
C25_Witness ==
    \E t \in callers :
        /\ Returned(t, "record_error")
        /\ call[t].k = 100
        /\ call[t].log
        /\ reported > 0

\* C26: record_success returns Some(n) exactly when at least one record_error
\* was called since the record_success before it (or since creation), and then
\* n is the number of those calls; otherwise it returns None.
C26_RecoveryReportedOnce ==
    \A t \in callers :
        Returned(t, "record_success") =>
            /\ call[t].some <=> call[t].k >= 1
            /\ call[t].some => call[t].total = call[t].k

\* a second recovery, of three errors
C26_Witness ==
    \E t \in callers :
        /\ Returned(t, "record_success")
        /\ call[t].some
        /\ call[t].total = 3
        /\ reported > 3

\* C27: with the calls of several threads interleaved, every Some(n) has
\* n >= 1, the reports together count no more errors than were recorded, and
\* consecutive equals total_since_reset whenever no call is in progress.
C27_ConcurrencySafe ==
    /\ \A t \in callers :
          (Returned(t, "record_success") /\ call[t].some) => call[t].total >= 1
    /\ reported <= made
    /\ (\A t \in callers : Outside(t)) => consecutive = total_since_reset

\* ------------------------------------------------------------ drain_outbox
STALE_SECS == 600

OutboxNames == {"prs.1.json", "prs.2.json", "prs.3.json"}
Sessions == {"s1", "s2"}
\* seconds between a file's mtime and the `now` of the drain
Ages == {0, 1, STALE_SECS, STALE_SECS + 1}
\* what the transport does with a presence POST: a 2xx response, a 500
\* response, no response
Answers == {"2xx", "500", "none"}

\* a presence file a hook wrote; a file that is no JSON document; a JSON file
\* without session_id; a file whose name starts with '.' or has no .json ending
\* (the kind stands for the name); no file
OutboxFile ==
    [kind : {"presence"}, sid : Sessions, age : Ages]
        \cup [kind : {"malformed", "no_sid", "hidden"}, sid : {""}, age : {0}]
        \cup {NoFile}

\* ShipperClient::post_json: Err only when send() fails, Ok(()) for a response
\* of any status
post_json(answer) == IF answer = "none" THEN "Err" ELSE "Ok"

Newer_Older(a, b) == a.age > b.age

\* drain_outbox: new_mtime > existing_mtime
Newer(a, b) == a.age < b.age

remove_file(dir, f) == [dir EXCEPT ![f] = NoFile]

OutboxInit ==
    /\ DaemonIdle
    /\ ParserIdle
    /\ WatcherIdle /\ TrackerIdle /\ RetryIdle /\ UnitsIdle
    /\ outbox \in [OutboxNames -> OutboxFile]
    /\ listed = outbox
    /\ entries = <<>>
    /\ by_session = [s \in Sessions |-> "none"]
    /\ dpc = "idle"
    /\ posts = <<>>

\* drain_outbox: read_dir, in the order the directory yields its entries
DrainStart ==
    /\ dpc = "idle"
    /\ entries' \in Orders({f \in OutboxNames : outbox[f] /= NoFile})
    /\ listed' = outbox
    /\ by_session' = [s \in Sessions |-> "none"]
    /\ posts' = <<>>
    /\ dpc' = "drain"
    /\ UNCHANGED outbox

\* drain_outbox, one turn of the loop over the directory entries
DrainEntry ==
    /\ dpc = "drain"
    /\ entries /= <<>>
    /\ LET f == Head(entries)
           file == outbox[f]
           kept == by_session[file.sid]
       IN IF file.kind = "hidden" \/ file = NoFile
          THEN UNCHANGED <<outbox, by_session>>
          ELSE IF file.age > STALE_SECS \/ file.kind \in {"malformed", "no_sid"}
          THEN outbox' = remove_file(outbox, f) /\ UNCHANGED by_session
          ELSE IF kept = "none"
          THEN by_session' = [by_session EXCEPT ![file.sid] = f] /\ UNCHANGED outbox
          ELSE IF Newer(file, outbox[kept])
          THEN /\ outbox' = remove_file(outbox, kept)
               /\ by_session' = [by_session EXCEPT ![file.sid] = f]
          ELSE outbox' = remove_file(outbox, f) /\ UNCHANGED by_session
    /\ entries' = Tail(entries)
    /\ UNCHANGED <<listed, dpc, posts>>

\* drain_outbox, one turn of the loop over by_session: post the bytes and
\* remove the file when post_json returns Ok
DrainPost(answer) ==
    /\ dpc = "drain"
    /\ entries = <<>>
    /\ \E s \in Sessions :
          /\ by_session[s] /= "none"
          /\ posts' = Append(posts, [name |-> by_session[s], sid |-> s,
                                     answer |-> answer])
          /\ outbox' = IF post_json(answer) = "Ok"
                       THEN remove_file(outbox, by_session[s])
                       ELSE outbox
          /\ by_session' = [by_session EXCEPT ![s] = "none"]
    /\ UNCHANGED <<listed, entries, dpc>>

\* drain_outbox returns (sent, kept)
DrainEnd ==
    /\ dpc = "drain"
    /\ entries = <<>>
    /\ \A s \in Sessions : by_session[s] = "none"
    /\ dpc' = "idle"
    /\ UNCHANGED <<outbox, listed, entries, by_session, posts>>

besideOutbox == <<deliveryVars, loopVars, parserVars, watcherVars, trackerVars,
                  retryVars, unitVars>>

OutboxNext ==
    \/ DrainStart /\ UNCHANGED besideOutbox
    \/ DrainEntry /\ UNCHANGED besideOutbox
    \/ \E answer \in Answers : DrainPost(answer) /\ UNCHANGED besideOutbox
    \/ DrainEnd /\ UNCHANGED besideOutbox

OutboxSpec == OutboxInit /\ [][OutboxNext]_vars

\* the valid, non-stale ready files of session s that read_dir found
Candidates(s) ==
    {f \in OutboxNames : /\ listed[f].kind = "presence"
                         /\ listed[f].sid = s
                         /\ listed[f].age <= STALE_SECS}

PostedNames == {posts[i].name : i \in 1..Len(posts)}

\* C23: once a drain has gone through the directory, it makes at most one POST
\* per session_id; for every session with valid, non-stale ready files, the file
\* it keeps and posts is one of them whose mtime no other of them exceeds, and
\* every other of them is gone from the directory and is not posted.
C23_OutboxCoalescing ==
    (dpc = "drain" /\ entries = <<>>) =>
        /\ \A i, j \in 1..Len(posts) : posts[i].sid = posts[j].sid => i = j
        /\ \A s \in Sessions :
              Candidates(s) /= {} =>
                  \E w \in Candidates(s) :
                      /\ \/ by_session[s] = w
                         \/ by_session[s] = "none" /\ w \in PostedNames
                      /\ \A f \in Candidates(s) : listed[w].age <= listed[f].age
                      /\ \A f \in Candidates(s) \ {w} :
                            outbox[f] = NoFile /\ f \notin PostedNames

\* three files of one session, written at different times: one POST
C23_Witness ==
    /\ dpc = "drain"
    /\ entries = <<>>
    /\ Len(posts) = 1
    /\ \E s \in Sessions :
          /\ Cardinality(Candidates(s)) = 3
          /\ \A f, g \in Candidates(s) : listed[f].age = listed[g].age => f = g

\* C24: a file that the drain posted is gone from the directory exactly when
\* its POST succeeded, that is when it got a 2xx response; with no response, or
\* with a response such as 500, the file is still there for the next drain.
C24_DeletedIffPostSucceeded ==
    \A i \in 1..Len(posts) :
        (outbox[posts[i].name] = NoFile) <=> (posts[i].answer = "2xx")

\* ------------------------------------------------ properties of the replay
\* replay_spool_batch has broken out of its loop on a ConnectError
ReplayCutShort ==
    pc = "replay" /\ last.op = "replay_entry" /\ last.result = "ConnectError"

C29_ReplayDeadLetter ==
    [][ /\ (last'.op = "replay_entry" /\ last'.result \in {"missing", "ClientError"}) =>
               /\ \E r \in spool' : /\ r.id = Head(batch).id
                                    /\ r.status = "dead"
                                    /\ r.retry_count = Head(batch).retry_count + 1
               /\ fs' = fs
        /\ \A r \in spool : r.status = "dead" =>
               \A q \in spool' : q.id = r.id => q.status = "dead"
        /\ (pc /= "replay" /\ pc' = "replay") =>
               \A i \in 1..Len(batch') :
                   \E r \in spool : r.id = batch'[i].id /\ r.status = "pending"
      ]_vars

\* an entry that had failed once before dies on a ClientError while another
\* dead row sits in the spool
C29_Witness ==
    /\ last.op = "replay_entry"
    /\ last.result = "ClientError"
    /\ \E r \in spool : r.status = "dead" /\ r.retry_count = 2

\* ------------------------------------------------ one spool row under retry
MaxAttempts == 52   \* ship attempts the model follows for the row

BACKOFF_BASE == 5
BACKOFF_MAX == 3600
TEST_MAX_RETRIES == 3   \* mark_failed_with_max(id, .., 3) in the spool tests

RECURSIVE Doubled(_)
\* BACKOFF_BASE * 2.0_f64.powi(n); the f64 cannot overflow for the counts a
\* row reaches, the model stops doubling once the value is past BACKOFF_MAX
Doubled(n) ==
    IF n = 0 THEN BACKOFF_BASE
    ELSE LET d == Doubled(n - 1)
         IN  IF d > BACKOFF_MAX THEN d ELSE 2 * d

\* (BACKOFF_BASE * 2^new_count).min(BACKOFF_MAX) as i64
backoff_secs(new_count) == Min(Doubled(new_count), BACKOFF_MAX)

mark_failed_row_Strict(e, max_retries) ==
    IF e.retry_count + 1 > max_retries
    THEN [e EXCEPT !.status = "dead", !.retry_count = e.retry_count + 1,
                   !.max = max_retries]
    ELSE [e EXCEPT !.retry_count = e.retry_count + 1,
                   !.delay = backoff_secs(e.retry_count + 1), !.max = max_retries]

\* Spool::mark_failed_with_max on the row, next_retry_at kept as its distance
\* from the `now` of the call
mark_failed_row(e, max_retries) ==
    IF e.retry_count + 1 >= max_retries
    THEN [e EXCEPT !.status = "dead", !.retry_count = e.retry_count + 1,
                   !.max = max_retries]
    ELSE [e EXCEPT !.retry_count = e.retry_count + 1,
                   !.delay = backoff_secs(e.retry_count + 1), !.max = max_retries]

\* Spool::enqueue has inserted the row: pending, retry_count 0, due at once
RetryInit ==
    /\ DaemonIdle
    /\ ParserIdle
    /\ WatcherIdle /\ TrackerIdle /\ OutboxIdle /\ UnitsIdle
    /\ entry = [retry_count |-> 0, status |-> "pending", delay |-> 0,
                max |-> DEFAULT_MAX_RETRIES]
    /\ attempts = 0

\* replay_spool_batch ships the row once its delay has passed: the match on
\* the ShipResult
ReplayAttempt(out) ==
    /\ entry.status = "pending"
    /\ attempts < MaxAttempts
    /\ attempts' = attempts + 1
    /\ entry' = CASE out = "Ok" -> [entry EXCEPT !.status = "shipped"]
                  [] out = "ConnectError" -> entry
                  [] out \in {"RateLimited", "ServerError"} ->
                         mark_failed_row(entry, DEFAULT_MAX_RETRIES)
                  [] out = "ClientError" -> mark_failed_row(entry, 0)

\* replay_spool_batch finds the source file gone
ReplayFileMissing ==
    /\ entry.status = "pending"
    /\ entry' = mark_failed_row(entry, 0)
    /\ UNCHANGED attempts

\* a caller passes its own ceiling, as the spool tests do
MarkFailedWithMax ==
    /\ entry.status = "pending"
    /\ entry' = mark_failed_row(entry, TEST_MAX_RETRIES)
    /\ UNCHANGED attempts

besideRetry == <<deliveryVars, loopVars, parserVars, watcherVars, trackerVars,
                 outboxVars, unitVars>>

RetryNext ==
    \/ \E out \in ShipResult : ReplayAttempt(out) /\ UNCHANGED besideRetry
    \/ ReplayFileMissing /\ UNCHANGED besideRetry
    \/ MarkFailedWithMax /\ UNCHANGED besideRetry

RetrySpec == RetryInit /\ [][RetryNext]_vars

\* what one mark_failed_with_max call does to the row
MarkedFailed ==
    /\ entry'.retry_count = entry.retry_count + 1
    /\ entry'.status = "dead" <=> entry'.retry_count >= entry'.max
    /\ entry'.status /= "dead" =>
           /\ entry'.status = "pending"
           /\ entry'.delay = IF entry'.retry_count >= 10 THEN 3600
                             ELSE 5 * 2^(entry'.retry_count)
    /\ entry'.delay <= 3600

\* C30 as stated: every mark_failed_with_max raises retry_count by exactly 1,
\* the row is dead exactly when the new count is >= max and otherwise stays
\* pending with a delay of min(5 * 2^n, 3600) seconds, n the new count; the
\* delay never exceeds one hour and the row is shipped at most 50 times.
C30_RetryCeiling ==
    /\ [][(entry' /= entry /\ entry'.status /= "shipped") => MarkedFailed]_vars
    /\ [](attempts <= DEFAULT_MAX_RETRIES)

\* C30, amended: every mark_failed_with_max raises retry_count by exactly 1,
\* the row is dead exactly when the new count is >= max and otherwise stays
\* pending with a delay of min(5 * 2^n, 3600) seconds, n the new count; the
\* delay never exceeds one hour, and a pending row has been marked failed
\* fewer than 50 times, while the attempts that end in ConnectError are not
\* counted and can be more.
C30_RetryCeilingOfCountedFailures ==
    /\ [][(entry' /= entry /\ entry'.status /= "shipped") => MarkedFailed]_vars
    /\ [](entry.retry_count <= DEFAULT_MAX_RETRIES)
    /\ [](entry.status = "pending" => entry.retry_count < DEFAULT_MAX_RETRIES)

\* the row dies on its 50th counted failure, after 52 attempts, its delay at
\* the cap
C30_Witness ==
    /\ entry.status = "dead"
    /\ entry.retry_count = DEFAULT_MAX_RETRIES
    /\ entry.delay = BACKOFF_MAX
    /\ attempts = 52

\* ------------------------------------- dequeue_batch as a function of the table
DqRows == 3    \* rows of the table at most

\* a row of the table: the id is also its rank by created_at; a dead row keeps
\* the next_retry_at it had, so it can be due
DqRow(id, st, d) ==
    [NewRow(id, ProviderOf("a.jsonl"), "a.jsonl", 0, LineLen, SessionId("a.jsonl"))
        EXCEPT !.status = st, !.due = d]

DqTables ==
    {{DqRow(id, pick[id].st, pick[id].d) : id \in ids} :
        ids \in SUBSET (1..DqRows),
        pick \in [1..DqRows -> [st : {"pending", "dead"}, d : BOOLEAN]]}

DequeueInit ==
    /\ DaemonIdle
    /\ ParserIdle
    /\ WatcherIdle /\ TrackerIdle /\ OutboxIdle /\ RetryIdle
    /\ ShipIdle /\ PathsIdle /\ ScanIdle /\ StateIdle
    /\ dq_table \in DqTables
    /\ dq_limit = 0
    /\ dq_batch = <<>>

\* a caller asks for at most `limit` entries
Dequeue(limit) ==
    /\ dq_limit' = limit
    /\ dq_batch' = dequeue_batch(dq_table, limit)
    /\ UNCHANGED dq_table

\* time passes: the next_retry_at of a row is reached
DqElapse ==
    \E r \in dq_table :
        /\ ~r.due
        /\ dq_table' = (dq_table \ {r}) \cup {[r EXCEPT !.due = TRUE]}
        /\ dq_limit' = 0
        /\ dq_batch' = <<>>

besideDequeue == <<deliveryVars, loopVars, parserVars, watcherVars, trackerVars,
                   outboxVars, retryVars, shipVars, pathsVars, scanVars, stateVars>>

DequeueNext ==
    \/ \E limit \in 0..DqRows : Dequeue(limit) /\ UNCHANGED besideDequeue
    \/ DqElapse /\ UNCHANGED besideDequeue

DequeueSpec == DequeueInit /\ [][DequeueNext]_vars

\* C31: dequeue_batch(limit) returns only rows of the table that are pending
\* with next_retry_at <= now, in ascending created_at order, at most limit of
\* them, and the call changes no row; a row that is dead or whose backoff has
\* not elapsed is never returned.
C31_DequeueBatch ==
    /\ [](/\ Len(dq_batch) <= dq_limit
          /\ \A i \in 1..Len(dq_batch) :
                /\ dq_batch[i] \in dq_table
                /\ dq_batch[i].status = "pending"
                /\ dq_batch[i].due
          /\ \A i, j \in 1..Len(dq_batch) :
                i < j => dq_batch[i].id < dq_batch[j].id)
    /\ [][dq_batch' /= <<>> => dq_table' = dq_table]_vars

\* a call with limit 1 over a table that holds two ready rows, a dead row whose
\* next_retry_at has passed: the older ready row is returned
C31_Witness ==
    /\ dq_limit = 1
    /\ Len(dq_batch) = 1
    /\ dq_batch[1].id = 2
    /\ \E r \in dq_table : r.id = 1 /\ r.status = "dead" /\ r.due
    /\ \E r \in dq_table : r.id = 3 /\ r.status = "pending" /\ r.due

\* ------------------------------------------------------- startup recovery
\* run_startup_recovery's return value: unacked.len()
recovery_count(f) == Cardinality(get_unacked_files(f))

\* the step is daemon::run from its start to the event loop
DaemonStarts == proc = "down" /\ proc' = "daemon"

\* the files a recovery has to enqueue, from the cursors
Gaps == {p \in Paths : fs[p].tracked /\ fs[p].queued_offset > fs[p].acked_offset}

\* the row the recovery adds for p
IsGapRow(r, p) ==
    /\ r.file_path = p
    /\ r.provider = fs[p].provider
    /\ r.start_offset = fs[p].acked_offset
    /\ r.end_offset = fs[p].queued_offset
    /\ r.session_id = fs[p].session_id
    /\ r.status = "pending"
    /\ r.retry_count = 0

\* what the recovery does whether or not the spool has room: it adds rows for
\* files with a gap only, at most one each, keeps the rows there were, and
\* leaves the cursors of every file_state row (prune_stale, which daemon::run
\* calls next, deletes rows and changes none)
RecoveryAddsOnlyGaps ==
    /\ spool \subseteq spool'
    /\ \A r \in spool' \ spool : r.file_path \in Gaps /\ IsGapRow(r, r.file_path)
    /\ \A r, q \in spool' \ spool : r.file_path = q.file_path => r = q
    /\ Cardinality(spool' \ spool) <= recovery_count(fs)
    /\ \A p \in Paths :
          fs'[p].tracked =>
              /\ fs'[p].acked_offset = fs[p].acked_offset
              /\ fs'[p].queued_offset = fs[p].queued_offset

\* C32 as stated: run_startup_recovery enqueues, for every tracked file with
\* queued_offset > acked_offset and for no other file, one spool entry
\* (provider, path, acked_offset, queued_offset, session_id), changes no cursor
\* and returns the number of such files.
C32_StartupRecovery ==
    [][DaemonStarts =>
          /\ RecoveryAddsOnlyGaps
          /\ \A p \in Gaps : \E r \in spool' \ spool : r.file_path = p
          /\ Cardinality(spool' \ spool) = recovery_count(fs)]_vars

\* C32, amended: the entry of a file is added only while the spool holds fewer
\* than MAX_QUEUE_SIZE rows; a rejected enqueue adds nothing for that file and
\* is still counted in the number returned.
C32_StartupRecoveryWithRoom ==
    [][DaemonStarts =>
          /\ RecoveryAddsOnlyGaps
          /\ (Cardinality(spool) + filler + Cardinality(Gaps) <= MAX_QUEUE_SIZE) =>
                /\ \A p \in Gaps : \E r \in spool' \ spool : r.file_path = p
                /\ Cardinality(spool' \ spool) = recovery_count(fs)
          /\ (Cardinality(spool) + filler >= MAX_QUEUE_SIZE) => spool' = spool]_vars

\* the daemon has just restarted after a crash and its recovery has added the
\* row of the gap [acked_offset, queued_offset) of the file
C32_Witness ==
    /\ proc = "daemon"
    /\ phase = "recovering"
    /\ last.op = "prune_stale"
    /\ nextRow = 3
    /\ \E r \in spool : r.id = 2 /\ IsGapRow(r, "a.jsonl") /\ r.end_offset > r.start_offset

\* ---------------------------------------------------- ShipperClient::ship
DEFAULT_MAX_RETRIES_429 == 3     \* ShipperConfig::default
DEFAULT_BASE_BACKOFF_MS == 1000  \* base_backoff_seconds: 1.0
WAIT_CAP_MS == 30000             \* .min(30.0)

\* the status codes the server answers with, 0: send() returned Err
Statuses == {0, 200, 204, 302, 400, 401, 404, 429, 500, 503}

\* the Retry-After header of a 429 as parse::<f64>() reads it, an Option in
\* milliseconds; <<>>: no header, or one that is not a number
RetryAfters == {<<>>, <<-1000>>, <<0>>, <<2000>>, <<60000>>}

\* 0.5 + gen::<f64>() * 0.5, in percent: a factor in [0.5, 1.0)
JitterFactors == {50, 75, 99}

\* the configured max_retries_429
RetryConfigs == {0, 1, DEFAULT_MAX_RETRIES_429}

\* the match on the status of a response that is not a 429
Classify(code) ==
    IF code >= 200 /\ code <= 299 THEN "Ok"
    ELSE IF code = 401 \/ code = 403 THEN "ClientError"
    ELSE IF code >= 400 /\ code <= 499 THEN "ClientError"
    ELSE IF code >= 500 /\ code <= 599 THEN "ServerError"
    ELSE "ClientError"

\* (base_wait * jitter_factor).min(30.0)
WaitMs(base_wait, jitter) == Min((base_wait * jitter) \div 100, WAIT_CAP_MS)

\* ShipperClient::new, from a configuration
ShipInit ==
    /\ DaemonIdle
    /\ ParserIdle
    /\ WatcherIdle /\ TrackerIdle /\ OutboxIdle /\ RetryIdle
    /\ DequeueIdle /\ PathsIdle /\ ScanIdle /\ StateIdle
    /\ max_retries_429 \in RetryConfigs
    /\ ship_pc = "idle"
    /\ retries = 0
    /\ backoff = 0
    /\ requests = 0
    /\ response = NoAnswer
    /\ slept = 0
    /\ ship_result = "none"

\* ship is called: its locals, and the first request goes out
ShipCall ==
    /\ ship_pc = "idle"
    /\ ship_pc' = "sending"
    /\ retries' = 0
    /\ backoff' = DEFAULT_BASE_BACKOFF_MS
    /\ UNCHANGED <<max_retries_429, requests, response, slept, ship_result>>

\* send().await returns: the match on the result and on the status.  A
\* Duration::from_secs_f64 of a negative number of seconds panics.
ShipAnswer(code, retry_after, jitter) ==
    /\ ship_pc = "sending"
    /\ code = 429 \/ retry_after = <<>>
    /\ requests' = requests + 1
    /\ response' = [status |-> code, retry_after |-> retry_after]
    /\ IF code = 0
       THEN /\ ship_pc' = "returned"
            /\ ship_result' = "ConnectError"
            /\ UNCHANGED slept
       ELSE IF code /= 429
       THEN /\ ship_pc' = "returned"
            /\ ship_result' = Classify(code)
            /\ UNCHANGED slept
       ELSE IF retries >= max_retries_429
       THEN /\ ship_pc' = "returned"
            /\ ship_result' = "RateLimited"
            /\ UNCHANGED slept
       ELSE LET base_wait == IF retry_after = <<>> THEN backoff ELSE retry_after[1]
                wait == WaitMs(base_wait, jitter)
            IN /\ slept' = wait
               /\ ship_pc' = IF wait < 0 THEN "panicked" ELSE "sleeping"
               /\ UNCHANGED ship_result
    /\ UNCHANGED <<max_retries_429, retries, backoff>>

\* the sleep is over: retries += 1, backoff *= 2.0, and the next request
ShipWake ==
    /\ ship_pc = "sleeping"
    /\ ship_pc' = "sending"
    /\ retries' = retries + 1
    /\ backoff' = backoff * 2
    /\ UNCHANGED <<max_retries_429, requests, response, slept, ship_result>>

besideShip == <<deliveryVars, loopVars, parserVars, watcherVars, trackerVars,
                outboxVars, retryVars, dequeueVars, pathsVars, scanVars, stateVars>>

ShipNext ==
    \/ ShipCall /\ UNCHANGED besideShip
    \/ \E code \in Statuses, retry_after \in RetryAfters, jitter \in JitterFactors :
          ShipAnswer(code, retry_after, jitter) /\ UNCHANGED besideShip
    \/ ShipWake /\ UNCHANGED besideShip

ShipSpec == ShipInit /\ [][ShipNext]_vars

\* what ship returns for the response it got last, and how many requests and
\* what fallback backoff it has used
ShipClassifies ==
    /\ requests <= max_retries_429 + 1
    /\ ship_pc = "returned" =>
          /\ response.status = 0 => ship_result = "ConnectError"
          /\ response.status \in 200..299 => ship_result = "Ok"
          /\ response.status \in 500..599 => ship_result = "ServerError"
          /\ response.status \in (400..499) \ {429} => ship_result = "ClientError"
          /\ response.status = 429 =>
                ship_result = "RateLimited" /\ requests = max_retries_429 + 1
          /\ ship_result \in ShipResult
    /\ ship_pc \in {"sending", "sleeping"} =>
          backoff = DEFAULT_BASE_BACKOFF_MS * 2^retries

\* C33: ship always terminates with exactly one classification: 2xx gives Ok,
\* 5xx ServerError, a 4xx other than 429 ClientError, no response
\* ConnectError, and a run of 429 answers RateLimited after at most
\* max_retries_429 + 1 requests, the fallback backoff doubling after each
\* retry; no call ends without a classification.
C33_ShipClassifiesAndEnds ==
    /\ ShipClassifies
    /\ ship_pc /= "panicked"

\* ------------------------------------------ the two parse paths, one file
\* the bytes of the file from `offset` on: &mmap[offset..], and what the
\* reader yields after file.seek(Start(offset))
From(body, offset) == SubSeq(body, offset + 1, Len(body))

\* parse_mmap(path, offset, ..) on a file without the blank first line
parse_mmap_from(body, offset) ==
    IF offset < Len(body)
    THEN MmapLoop(From(body, offset), 0, offset, <<>>, offset)
    ELSE ParseResult(<<>>, offset)

\* parse_buffered(path, offset, ..) on the same file
parse_buffered_from(body, offset) ==
    BufferedLoop(Lines(From(body, offset)), offset, <<>>)

\* a file and an offset inside it (parse_session_file calls neither path when
\* nothing lies past the offset)
PathsInit ==
    /\ DaemonIdle
    /\ WatcherIdle /\ TrackerIdle /\ OutboxIdle /\ RetryIdle
    /\ DequeueIdle /\ ShipIdle /\ ScanIdle /\ StateIdle
    /\ file_pad = 0
    /\ file_body \in UNION {[1..n -> Bytes] : n \in 1..MaxBytes}
    /\ parse_offset \in 0..(MaxBytes - 1)
    /\ parse_offset < Len(file_body)
    /\ whole = NoResult
    /\ upto = NoResult
    /\ raw_obj = NoLine
    /\ extracted = NotExtracted
    /\ by_mmap = NoResult
    /\ by_buffered = NoResult

ParseMmap ==
    /\ ~by_mmap.done
    /\ by_mmap' = parse_mmap_from(file_body, parse_offset)
    /\ UNCHANGED <<parse_offset, by_buffered>>

ParseBuffered ==
    /\ ~by_buffered.done
    /\ by_buffered' = parse_buffered_from(file_body, parse_offset)
    /\ UNCHANGED <<parse_offset, by_mmap>>

besidePaths == <<deliveryVars, loopVars, parserVars, watcherVars, trackerVars,
                 outboxVars, retryVars, dequeueVars, shipVars, scanVars, stateVars>>

PathsNext ==
    \/ ParseMmap /\ UNCHANGED besidePaths
    \/ ParseBuffered /\ UNCHANGED besidePaths

PathsSpec == PathsInit /\ [][PathsNext]_vars

\* C34: for every file content and start offset the buffered path and the
\* memory-mapped path return the same event list and the same
\* last_good_offset, also for a file that ends in an unterminated line, for
\* blank lines and for malformed lines, and last_good_offset never exceeds the
\* file size.
C34_ParsePathsAgree ==
    /\ (by_mmap.done /\ by_buffered.done) =>
          /\ by_mmap.events = by_buffered.events
          /\ by_mmap.last_good_offset = by_buffered.last_good_offset
    /\ by_mmap.done => by_mmap.last_good_offset <= Len(file_body)
    /\ by_buffered.done => by_buffered.last_good_offset <= Len(file_body)

\* ------------------------------------------------- the partial tail, later
\* the cursor prepare_file found lies inside line i of file p
CursorInside(p, i, offset) ==
    LineStart(p, i) < offset /\ offset < LineStart(p, i) + lines[p][i].len

\* C35: a partial tail is re-parsed next pass.  When an item prepared while the
\* file ended in an unterminated line has been answered and the cursor stands
\* at the file size of that time, inside the line, a prepare_file that runs
\* after the writer has completed the line produces the events of that line:
\* the line is neither skipped nor lost to a parse from its middle.
C35_PartialTailReparsed ==
    (last.op = "prepare_file" /\ ~last.reset) =>
        \A i \in 1..Len(lines[last.path]) :
            (/\ ~rewritten[last.path]
             /\ Complete(lines[last.path][i])
             /\ ~lines[last.path][i].done
             /\ CursorInside(last.path, i, last.acked)) =>
                i \in item.events

\* ---------------------------------------------- the range a replay ships
\* the complete lines of the file of spool entry e that start inside the byte
\* range the entry names
LinesOfRange(e) ==
    {i \in 1..Len(lines[e.file_path]) :
        /\ Complete(lines[e.file_path][i])
        /\ e.start_offset <= LineStart(e.file_path, i)
        /\ LineStart(e.file_path, i) < e.end_offset}

\* C36: a spool entry is replayed as the byte range it names.  The payload
\* replay_spool_batch ships for an entry holds the events of the lines in
\* [start_offset, end_offset) and no others, so bytes the file gained past
\* end_offset since the entry was enqueued are left to the next prepare_file.
C36_ReplayShipsItsRange ==
    [][(/\ pc = "replay"
        /\ batch /= <<>>
        /\ last'.op = "replay_entry"
        /\ last'.result = "Ok") =>
            last'.events = Cardinality(LinesOfRange(Head(batch)))]_vars

\* C37: no duplicate spool entries.  In every reachable state the spool holds at
\* most one pending row for a given (file_path, start_offset, end_offset):
\* neither run_startup_recovery on a restart nor a repeated prepare_file with a
\* failing ship_and_record adds a second row that covers the same bytes.
C37_NoDuplicateSpoolEntries ==
    \A r, q \in spool :
        (/\ r.status = "pending" /\ q.status = "pending"
         /\ r.file_path = q.file_path
         /\ r.start_offset = q.start_offset
         /\ r.end_offset = q.end_offset) => r = q

\* ------------------------------------- next_batch inside the select! loop
\* daemon::run, one turn of its loop in which a branch polled after next_batch
\* (fallback scan, spool replay, prune, heartbeat) is ready while next_batch is
\* pending: select! runs that branch and drops the other futures, the
\* next_batch future with its local `batch` among them; the loop then comes
\* round and calls next_batch anew
TimerBranchWins ==
    /\ \/ wpc = "first"
       \/ wpc = "collecting" /\ waited < deadline
    /\ ChanLen = 0
    /\ wpc' = "idle"
    /\ collected' = {}
    /\ waited' = 0
    /\ deadline' = 0
    /\ UNCHANGED <<chan_old, chan, dropped_events, handed>>

SelectNext ==
    \/ WatchNext
    \/ TimerBranchWins /\ UNCHANGED besideWatcher

\* the watcher as daemon::run drives it
SelectSpec == WatchInit /\ [][SelectNext]_vars

\* C38: no watcher event is lost inside the event loop.  Every path next_batch
\* has taken off the channel stays in its batch until the batch is returned to
\* the loop, which hands it to ship_batch; a timer branch that becomes ready
\* while next_batch is collecting does not discard the paths received.
C38_NoWatcherEventLost ==
    [][wpc = "collecting" =>
          \A p \in collected :
              \/ p \in collected'
              \/ \E i \in 1..Len(handed') : handed'[i] = p]_vars

\* ------------------------------------------ full_scan, nobody writing
MaxScanLines == 2   \* lines of a file at most
MaxScans == 2       \* full_scan calls the model follows

ScanPaths == {"a.jsonl", "b.jsonl"}

\* what a newline-terminated line holds: a record with events, a record of a
\* type extract_events skips, only whitespace, or text that is not JSON
LineKinds == {"event", "summary", "blank", "malformed"}

\* std::fs::metadata(path).len(): every line is LineLen bytes
ScanSize(p) == Len(scan_lines[p]) * LineLen

\* parse_session_file(path, offset).events on these files: the lines that
\* start at or after `offset` and hold a record with events
ScanEvents(p, offset) ==
    {i \in 1..Len(scan_lines[p]) :
        (i - 1) * LineLen >= offset /\ scan_lines[p][i] = "event"}

\* discover_all_files: the files that are not empty
discover_all_files == {p \in ScanPaths : ScanSize(p) > 0}

\* a fresh state DB, the files as they are on disk
ScanInit ==
    /\ DaemonIdle
    /\ ParserIdle
    /\ WatcherIdle /\ TrackerIdle /\ OutboxIdle /\ RetryIdle
    /\ DequeueIdle /\ ShipIdle /\ PathsIdle /\ StateIdle
    /\ scan_lines \in [ScanPaths -> UNION {[1..n -> LineKinds] : n \in 0..MaxScanLines}]
    /\ scan_acked = [p \in ScanPaths |-> 0]
    /\ scan_pc = "idle"
    /\ scan_todo = <<>>
    /\ scans = 0
    /\ parsed_in_scan = {}

\* full_scan is called: discover_all_files, in the order of the mtimes
FullScanStart ==
    /\ scan_pc = "idle"
    /\ scans < MaxScans
    /\ scan_pc' = "scanning"
    /\ scan_todo' \in Orders(discover_all_files)
    /\ parsed_in_scan' = {}
    /\ UNCHANGED <<scan_lines, scan_acked, scans>>

\* full_scan, one turn of its loop: prepare_file, and for an item
\* ship_and_record with the transport answering 2xx (set_offset to new_offset)
ScanFile ==
    /\ scan_pc = "scanning"
    /\ scan_todo /= <<>>
    /\ LET p == Head(scan_todo)
           current_offset == scan_acked[p]
           file_size == ScanSize(p)
       IN IF file_size = current_offset
          THEN UNCHANGED <<scan_acked, parsed_in_scan>>     \* no new content
          ELSE /\ parsed_in_scan' = parsed_in_scan \cup {p}
               /\ scan_acked' =
                     IF ScanEvents(p, current_offset) = {} THEN scan_acked
                     ELSE [scan_acked EXCEPT ![p] = Max(@, file_size)]
    /\ scan_todo' = Tail(scan_todo)
    /\ UNCHANGED <<scan_lines, scan_pc, scans>>

\* full_scan returns
FullScanEnd ==
    /\ scan_pc = "scanning"
    /\ scan_todo = <<>>
    /\ scan_pc' = "idle"
    /\ scans' = scans + 1
    /\ UNCHANGED <<scan_lines, scan_acked, scan_todo, parsed_in_scan>>

besideScan == <<deliveryVars, loopVars, parserVars, watcherVars, trackerVars,
                outboxVars, retryVars, dequeueVars, shipVars, pathsVars, stateVars>>

ScanNext ==
    \/ FullScanStart /\ UNCHANGED besideScan
    \/ ScanFile /\ UNCHANGED besideScan
    \/ FullScanEnd /\ UNCHANGED besideScan

ScanSpec == ScanInit /\ [][ScanNext]_vars

\* C39: scans reach a fixed point.  With a transport that always answers 2xx
\* and nobody writing, once one full_scan has returned every discovered file
\* has acked_offset equal to its size, and a later full_scan parses no file;
\* also for files whose lines produce no events.
C39_ScanFixedPoint ==
    scans >= 1 =>
        /\ \A p \in discover_all_files : scan_acked[p] = ScanSize(p)
        /\ parsed_in_scan = {} \/ (scan_pc = "idle" /\ scans = 1)

\* What does hold of the scans: once one full_scan has
\* returned, every discovered file that held an event has acked_offset equal to
\* its size and no later full_scan parses it; a file whose lines past the
\* cursor produce no events keeps its cursor and is parsed by every scan.
ScanSettlesEventFiles ==
    scans >= 1 =>
        \A p \in discover_all_files :
            IF \E i \in 1..Len(scan_lines[p]) : scan_lines[p][i] = "event"
            THEN /\ scan_acked[p] = ScanSize(p)
                 /\ (scan_pc = "scanning" \/ scans >= 2) => p \notin parsed_in_scan
            ELSE /\ scan_acked[p] = 0
                 /\ (scan_pc = "idle" /\ scans >= 2) => p \in parsed_in_scan

\* ------------------------------------- OfflineState, with its Instants
MaxInstant == 6         \* the clock stops here
MaxOfflineFailures == 4 \* consecutive_failures the model follows

\* OfflineState::new
OfflineState_new ==
    [is_offline |-> FALSE, offline_since |-> <<>>, consecutive_failures |-> 0]

OfflineState_mark_offline_Restamp(o, t) ==
    [is_offline |-> TRUE,
     offline_since |-> <<t>>,
     consecutive_failures |-> o.consecutive_failures + 1]

\* OfflineState::mark_offline at Instant t
OfflineState_mark_offline(o, t) ==
    [is_offline |-> TRUE,
     offline_since |-> IF ~o.is_offline THEN <<t>> ELSE o.offline_since,
     consecutive_failures |-> o.consecutive_failures + 1]

\* OfflineState::mark_online at Instant t: the state after, and the
\* Option<Duration> returned (offline_since.map(|s| s.elapsed()))
OfflineState_mark_online(o, t) ==
    IF o.is_offline
    THEN [after |-> OfflineState_new,
          ret |-> IF o.offline_since = <<>> THEN <<>>
                  ELSE <<t - o.offline_since[1]>>]
    ELSE [after |-> o, ret |-> <<>>]

OfflineInit ==
    /\ DaemonIdle
    /\ ParserIdle
    /\ WatcherIdle /\ TrackerIdle /\ OutboxIdle /\ RetryIdle
    /\ DequeueIdle /\ ShipIdle /\ PathsIdle /\ ScanIdle
    /\ ostate = OfflineState_new
    /\ instant = 0
    /\ ocall = [op |-> "new", ret |-> <<>>]

\* time passes between two calls
InstantPasses ==
    /\ instant < MaxInstant
    /\ instant' = instant + 1
    /\ UNCHANGED <<ostate, ocall>>

\* a caller marks the connection lost
MarkOffline ==
    /\ ostate.consecutive_failures < MaxOfflineFailures
    /\ ostate' = OfflineState_mark_offline(ostate, instant)
    /\ ocall' = [op |-> "mark_offline", ret |-> <<>>]
    /\ UNCHANGED instant

\* a caller marks the connection restored
MarkOnline ==
    /\ ostate' = OfflineState_mark_online(ostate, instant).after
    /\ ocall' = [op |-> "mark_online",
                 ret |-> OfflineState_mark_online(ostate, instant).ret]
    /\ UNCHANGED instant

besideState == <<deliveryVars, loopVars, parserVars, watcherVars, trackerVars,
                 outboxVars, retryVars, dequeueVars, shipVars, pathsVars,
                 scanVars>>

OfflineNext ==
    \/ InstantPasses /\ UNCHANGED besideState
    \/ MarkOffline /\ UNCHANGED besideState
    \/ MarkOnline /\ UNCHANGED besideState

OfflineSpec == OfflineInit /\ [][OfflineNext]_vars

OfflineConsistent ==
    /\ ostate.is_offline <=> ostate.offline_since /= <<>>
    /\ ~ostate.is_offline => ostate.consecutive_failures = 0

MarkOfflineKeepsSince ==
    (ocall'.op = "mark_offline" /\ ostate' /= ostate /\ ostate.is_offline)
        => ostate'.offline_since = ostate.offline_since

MarkOnlineWhileOnline ==
    (ocall'.op = "mark_online" /\ instant' = instant /\ ~ostate.is_offline)
        => ocall'.ret = <<>> /\ ostate' = ostate

\* C40: OfflineState is consistent.  is_offline is true exactly when
\* offline_since is set, and consecutive_failures is 0 whenever is_offline is
\* false; mark_offline while already offline keeps the original offline_since,
\* and mark_online while online returns None and changes nothing.
C40_OfflineStateConsistent ==
    /\ []OfflineConsistent
    /\ [][MarkOfflineKeepsSince /\ MarkOnlineWhileOnline]_vars

\* offline since an earlier Instant, and marked offline again after it
C40_Witness ==
    /\ ocall.op = "mark_offline"
    /\ ostate.is_offline
    /\ ostate.consecutive_failures >= 2
    /\ ostate.offline_since /= <<>>
    /\ ostate.offline_since[1] < instant

=============================================================================
